---- MODULE Spec2Model ----
(***************************************************************************)
(* wasify-go: the packed-word codec (internal/utils, mdk) and the host     *)
(* function invocation bridge (wazeroHostFunctionCallback and the          *)
(* HostFunction methods it drives).                                        *)
(*                                                                         *)
(* A uint32 is a tuple of 4 bytes and a uint64 a tuple of 8 bytes, least   *)
(* significant byte first, so that every shift, mask and bitwise OR of the *)
(* Go code is computed at full width.                                      *)
(***************************************************************************)
EXTENDS Integers, Sequences, FiniteSets, TLC

\* ------------------------------------------------------------------------
\* Bit and byte arithmetic
\* ------------------------------------------------------------------------

RECURSIVE BitOr(_, _)
\* a | b on non-negative integers
BitOr(a, b) ==
    IF a = 0 THEN b
    ELSE IF b = 0 THEN a
    ELSE (IF (a % 2 = 1) \/ (b % 2 = 1) THEN 1 ELSE 0) + 2 * BitOr(a \div 2, b \div 2)

RECURSIVE BitAnd(_, _)
\* a & b on non-negative integers
BitAnd(a, b) ==
    IF a = 0 \/ b = 0 THEN 0
    ELSE (IF (a % 2 = 1) /\ (b % 2 = 1) THEN 1 ELSE 0) + 2 * BitAnd(a \div 2, b \div 2)

\* uint32(n) for 0 <= n < 2^31, least significant byte first
U32(n) == <<n % 256, (n \div 256) % 256, (n \div 65536) % 256, (n \div 16777216) % 256>>

\* the integer value of a uint32 whose value is below 2^31
U32Val(b) == b[1] + 256 * b[2] + 65536 * b[3] + 16777216 * b[4]

\* uint64(x) of a uint32 x: zero extension
U64(x) == <<x[1], x[2], x[3], x[4], 0, 0, 0, 0>>

\* uint64(t) of a uint8 t
U64of8(t) == <<t, 0, 0, 0, 0, 0, 0, 0>>

\* uint32(w) of a uint64 w: truncation to the low 4 bytes
Trunc32(w) == <<w[1], w[2], w[3], w[4]>>

\* w << (8*k) on uint64: bytes shifted out of the top are lost
Shl64(w, k) == [i \in 1..8 |-> IF i > k THEN w[i - k] ELSE 0]

\* w >> (8*k) on uint64
Shr64(w, k) == [i \in 1..8 |-> IF i + k <= 8 THEN w[i + k] ELSE 0]

\* bytewise OR and AND of two words of the same width
OrW(a, b) == [i \in DOMAIN a |-> BitOr(a[i], b[i])]
AndW(a, b) == [i \in DOMAIN a |-> BitAnd(a[i], b[i])]

Zero64 == <<0, 0, 0, 0, 0, 0, 0, 0>>
Mask24of32 == <<255, 255, 255, 0>>
Mask24of64 == <<255, 255, 255, 0, 0, 0, 0, 0>>
Mask32of64 == <<255, 255, 255, 255, 0, 0, 0, 0>>

\* size >= (1 << 24) on uint32
SizeOverflows(size) == size[4] # 0

\* ------------------------------------------------------------------------
\* ValueType tags (internal/types)
\* ------------------------------------------------------------------------

ValueTypeBytes == 0
ValueTypeByte == 1
ValueTypeI32 == 2
ValueTypeI64 == 3
ValueTypeF32 == 4
ValueTypeF64 == 5
ValueTypeString == 6
ValueTypePack == 255

\* ------------------------------------------------------------------------
\* Packed-value codec
\* ------------------------------------------------------------------------

\* the three fields laid out in one word
PackFields(dataType, offset, size) ==
    OrW(OrW(Shl64(U64of8(dataType), 7), Shl64(U64(offset), 3)),
        U64(AndW(size, Mask24of32)))

\* PackUI64 with the bound test written > instead of >=
PackUI64_OffByOne(dataType, offset, size) ==
    IF SizeOverflows(size) /\ size # <<0, 0, 0, 1>>
    THEN [err |-> TRUE, word |-> Zero64]
    ELSE [err |-> FALSE, word |-> PackFields(dataType, offset, size)]

\* utils.PackUI64: (uint64, error)
PackUI64(dataType, offset, size) ==
    IF SizeOverflows(size)
    THEN [err |-> TRUE, word |-> Zero64]
    ELSE [err |-> FALSE, word |-> PackFields(dataType, offset, size)]

\* UnpackUI64 with the offset taken from bit 32 up (the 32/32 layout)
UnpackUI64_Shift32(packedData) ==
    [dataType |-> Shr64(packedData, 7)[1],
     offset   |-> Trunc32(AndW(Shr64(packedData, 4), Mask32of64)),
     size     |-> Trunc32(AndW(packedData, Mask24of64))]

\* utils.UnpackUI64
UnpackUI64(packedData) ==
    [dataType |-> Shr64(packedData, 7)[1],
     offset   |-> Trunc32(AndW(Shr64(packedData, 3), Mask32of64)),
     size     |-> Trunc32(AndW(packedData, Mask24of64))]

\* mdk packUI64: logs the overflow and returns the word all the same
packUI64(dataType, offset, size) ==
    [err |-> FALSE, logged |-> SizeOverflows(size),
     word |-> PackFields(dataType, offset, size)]

\* ------------------------------------------------------------------------
\* Bounds and input sets
\* ------------------------------------------------------------------------

\* number of blocks the guest allocator can hand out
NSlots == 5
\* host-function invocations followed in one behaviour
MaxCalls == 2
\* engine free calls of one cleanup step that may be chosen to fail
MaxFreeFault == 1
\* bytes between two block addresses of the guest allocator
SlotCap == 24
\* memory_size() of the guest instance, in bytes: the guest's heap lies in
\* the lower half
MemSize == 2 * SlotCap * (NSlots + 1)

Slots == 1..NSlots
Addr(s) == SlotCap * s

\* the revisions of wazeroHostFunctionCallback in the repository
Revisions == {"deferred", "cleanup", "panic", "proxy"}

\* a Go value: the tag of its dynamic type and its little-endian bytes;
\* GoInt stands for a Go type the conversion switch does not list
GoInt == 99
BytesHi == [t |-> ValueTypeBytes, b |-> <<104, 105>>]
BytesOk == [t |-> ValueTypeBytes, b |-> <<111, 107>>]
U32Seven == [t |-> ValueTypeI32, b |-> <<7, 0, 0, 0>>]
IntNine == [t |-> GoInt, b |-> <<9>>]
ByteOne == [t |-> ValueTypeByte, b |-> <<1>>]
U64Year == [t |-> ValueTypeI64, b |-> <<231, 7, 0, 0, 0, 0, 0, 0>>]
F32Val == [t |-> ValueTypeF32, b |-> <<154, 153, 49, 65>>]
F64Val == [t |-> ValueTypeF64, b |-> <<0, 0, 0, 0, 0, 0, 240, 63>>]
StrHost == [t |-> ValueTypeString, b |-> <<72, 105>>]
\* more dynamic types the conversion switch does not list
GoBool == 98
GoStruct == 97
BoolTrue == [t |-> GoBool, b |-> <<1>>]
StructEmpty == [t |-> GoStruct, b |-> <<>>]
\* values whose length is not the usual two
BytesNone == [t |-> ValueTypeBytes, b |-> <<>>]
StrWasify == [t |-> ValueTypeString, b |-> <<87, 97, 115>>]
\* a []byte of 1 << 24 bytes: only its length is kept
HugeLen == 16777216
HugeBytes == [t |-> ValueTypeBytes, b |-> <<>>, len |-> HugeLen]

\* len(v) of a []byte or a string
GoLen(v) == IF "len" \in DOMAIN v THEN v.len ELSE Len(v.b)

\* what a callback of the "proxy" revision passes to the Write...Pack
\* functions of Memory before it returns their words through WriteMultiPack
ProxyValueLists ==
    {<<>>, <<BytesOk>>, <<ByteOne>>, <<U32Seven>>, <<U64Year>>, <<F32Val>>,
     <<F64Val>>, <<StrHost>>, <<BytesOk, U32Seven>>}

\* what hf.Callback does: it panics, returns the nil *Results, or a list
Panics == [kind |-> "panic", vals |-> <<>>]
NilResults == [kind |-> "nil", vals |-> <<>>]
ResultList(vals) == [kind |-> "list", vals |-> vals]

\* the revisions of the host's own ValueType constants: aliases of the
\* internal/types constants, or an iota block of five without Byte and String
HostRevisions == {"types", "iota"}

\* the host's ValueType constants by name
HostValueType(hr) ==
    IF hr = "iota"
    THEN [Bytes |-> 0, I32 |-> 1, I64 |-> 2, F32 |-> 3, F64 |-> 4]
    ELSE [Bytes |-> ValueTypeBytes, Byte |-> ValueTypeByte, I32 |-> ValueTypeI32,
          I64 |-> ValueTypeI64, F32 |-> ValueTypeF32, F64 |-> ValueTypeF64,
          String |-> ValueTypeString]

\* the tags the guest (mdk) and GetOffsetSizeAndDataTypeByConversion use
GuestValueType ==
    [Bytes |-> ValueTypeBytes, Byte |-> ValueTypeByte, I32 |-> ValueTypeI32,
     I64 |-> ValueTypeI64, F32 |-> ValueTypeF32, F64 |-> ValueTypeF64,
     String |-> ValueTypeString]

\* declared parameter and result type lists of the registration, as the
\* constants the registering code names
DeclaredNames == {<<>>, <<"Bytes">>, <<"Bytes", "I32">>}

\* the []ValueType a registration holds under one revision of the constants
Declare(hr, names) == [i \in DOMAIN names |-> HostValueType(hr)[names[i]]]

CallbackOutcomes ==
    {Panics, NilResults} \cup
    {ResultList(v) : v \in {<<>>, <<BytesOk>>, <<U32Seven>>,
                            <<BytesOk, U32Seven>>, <<BytesOk, IntNine>>,
                            <<BytesOk, BytesOk>>}}

\* the arguments a guest passes: a value it allocated, the zero word,
\* a word that points past the end of memory, a word with an unknown tag,
\* or (second position) the same word again
ArgKinds == {"hi", "seven", "zero", "oob", "badtag"}
GuestStacks ==
    {<<>>} \cup {<<k>> : k \in ArgKinds} \cup
    {<<"hi", k>> : k \in {"seven", "same", "oob", "badtag"}}

VARIABLES
    rev,            \* which wazeroHostFunctionCallback is installed
    hfParams,       \* HostFunction.Params
    hfResults,      \* HostFunction.Results
    heap,           \* guest allocator: slot -> [live, data]
    allocationMap,  \* HostFunction.allocationMap: [Map, Size]
    stack,          \* the []uint64 stack of the call in flight
    stackIn,        \* the stack as the guest passed it
    pc,             \* position inside wazeroHostFunctionCallback
    params,         \* Params decoded by convertParamsToStruct
    results,        \* what hf.Callback returned
    returnOffsets,  \* the offsets writeResultsToMemory returned
    panicking,      \* a panic is unwinding the callback
    events,         \* what the invocation in flight has done, in order
    guestView,      \* what the guest read from the return slot
    calls,          \* invocations started
    codec,          \* last codec operation: inputs and outputs
    hostRev,        \* which ValueType constants the host package declares
    packed,         \* what the callback wrote with the host's Write...Pack
    amRev,          \* which AllocationMap revision the tracker is
    trk,            \* last tracker operation of a single caller
    gor,            \* goroutines inside Store or Delete of the shared tracker
    gf,             \* a wazeroGuestFunction, its Invoke and the result handle
    reg,            \* the modules instantiated and their host-function registrations
    lg              \* a call of the built-in log host function and what was logged

vars == <<rev, hfParams, hfResults, heap, allocationMap, stack, stackIn, pc,
          params, results, returnOffsets, panicking, events, guestView,
          calls, codec, hostRev, packed, amRev, trk, gor, gf, reg, lg>>

bridgeVars == <<rev, hfParams, hfResults, heap, allocationMap, stack, stackIn,
                pc, params, results, returnOffsets, panicking, events,
                guestView, calls, hostRev, packed, amRev, trk, gor, gf, reg, lg>>

\* ------------------------------------------------------------------------
\* Guest linear memory and allocator
\* ------------------------------------------------------------------------

EmptyHeap == [s \in Slots |-> [live |-> FALSE, data |-> <<>>]]

\* the byte of linear memory at address a (0 where nothing was written)
ByteAt(h, a) ==
    IF \E s \in Slots : a >= Addr(s) /\ a - Addr(s) < Len(h[s].data)
    THEN LET s == CHOOSE x \in Slots : a >= Addr(x) /\ a - Addr(x) < Len(h[x].data)
         IN h[s].data[a - Addr(s) + 1]
    ELSE 0

\* api.Memory.Read(offset, size): ok iff the span lies inside memory
InRange(offset, size) ==
    /\ offset[3] = 0 /\ offset[4] = 0 /\ size[3] = 0 /\ size[4] = 0
    /\ U32Val(offset) + U32Val(size) <= MemSize

MemRead(h, a, n) == [i \in 1..n |-> ByteAt(h, a + i - 1)]

\* the slot that starts at address a, or 0
SlotAt(a) == IF \E s \in Slots : Addr(s) = a THEN a \div SlotCap ELSE 0

FreeSlots(h) == {s \in Slots : ~h[s].live}

\* wazeroMemory.Malloc: calls the guest's malloc; the call fails when the
\* guest allocator has nothing left. A request no block can hold is served
\* by growing the memory: the new block starts where the memory ended, and
\* its bytes are not kept
Malloc(h, size) ==
    IF size > SlotCap
    THEN [err |-> FALSE, offset |-> MemSize, heap |-> h]
    ELSE IF FreeSlots(h) = {}
    THEN [err |-> TRUE, offset |-> 0, heap |-> h]
    ELSE LET s == CHOOSE x \in FreeSlots(h) : \A y \in FreeSlots(h) : x <= y
         IN [err |-> FALSE, offset |-> Addr(s),
             heap |-> [h EXCEPT ![s] = [live |-> TRUE, data |-> <<>>]]]

\* api.Memory.Write(offset, bytes) into the block at offset
MemWrite(h, a, bytes) ==
    IF SlotAt(a) = 0 THEN h
    ELSE [h EXCEPT ![SlotAt(a)].data = bytes]

\* api.Memory.Write(offset, bytes) of a span that may run past the end of the
\* block at offset: every byte of the span lands where its address is
MemWriteSpan(h, a, bytes) ==
    [s \in Slots |->
        LET lo == Addr(s)
            old == h[s].data
            end == IF a + Len(bytes) - lo > SlotCap THEN SlotCap
                   ELSE a + Len(bytes) - lo
            newLen == IF a < lo + SlotCap /\ end > Len(old) THEN end ELSE Len(old)
        IN [h[s] EXCEPT !.data =
              [i \in 1..newLen |->
                  IF lo + i - 1 >= a /\ lo + i - 1 < a + Len(bytes)
                  THEN bytes[lo + i - a]
                  ELSE IF i <= Len(old) THEN old[i] ELSE 0]]]

\* the guest's free(offset): releases the block, keeps the stale bytes
GuestFree(h, a) ==
    IF SlotAt(a) = 0 THEN h
    ELSE [h EXCEPT ![SlotAt(a)].live = FALSE]

\* ------------------------------------------------------------------------
\* Allocation tracker (internal/memory)
\* ------------------------------------------------------------------------

NewAllocationMap == [Map |-> <<>>, Size |-> 0]

\* AllocationMap.Store
Store(am, offset, size) ==
    [Map |-> [k \in DOMAIN am.Map \cup {offset} |->
                 IF k = offset THEN size ELSE am.Map[k]],
     Size |-> am.Size + size]

\* AllocationMap.Load: the ok flag
Load(am, offset) == offset \in DOMAIN am.Map

\* Delete that forgets the size it removed
Delete_KeepsSize(am, offset) ==
    [am EXCEPT !.Map = [k \in DOMAIN am.Map \ {offset} |-> am.Map[k]]]

\* AllocationMap.Delete
Delete(am, offset) ==
    IF offset \in DOMAIN am.Map
    THEN [Map |-> [k \in DOMAIN am.Map \ {offset} |-> am.Map[k]],
          Size |-> am.Size - am.Map[offset]]
    ELSE am

\* AllocationMap.TotalSize
TotalSize(am) == am.Size

\* AllocationMap.Load: the value (0 when the key is absent)
LoadValue(am, offset) == IF offset \in DOMAIN am.Map THEN am.Map[offset] ELSE 0

\* am.Map.Store(offset, size): the first statement of Store, atomic in sync.Map
MapStore(am, offset, size) ==
    [am EXCEPT !.Map = [k \in DOMAIN am.Map \cup {offset} |->
                           IF k = offset THEN size ELSE am.Map[k]]]

\* am.Map.LoadAndDelete(offset): the first statement of Delete, atomic in sync.Map
MapLoadAndDelete(am, offset) ==
    [v |-> LoadValue(am, offset),
     ok |-> offset \in DOMAIN am.Map,
     am |-> [am EXCEPT !.Map = [k \in DOMAIN am.Map \ {offset} |-> am.Map[k]]]]

\* Delete of the revision that asserts v.(V) without looking at ok: the
\* assertion on the nil interface of an absent key panics
DeleteUnchecked(am, offset) ==
    LET r == MapLoadAndDelete(am, offset)
    IN IF r.ok
       THEN [panicked |-> FALSE, am |-> [r.am EXCEPT !.Size = @ - r.v]]
       ELSE [panicked |-> TRUE, am |-> r.am]

\* ------------------------------------------------------------------------
\* Reading and writing typed values (wazeroMemory, internal/types)
\* ------------------------------------------------------------------------

\* byte width the engine reads for a tag; Bytes and String use the word's size
ReadWidth(tag, size) ==
    CASE tag = ValueTypeByte -> U32(1)
      [] tag \in {ValueTypeI32, ValueTypeF32} -> U32(4)
      [] tag \in {ValueTypeI64, ValueTypeF64} -> U32(8)
      [] OTHER -> size

SupportedTags ==
    {ValueTypeBytes, ValueTypeByte, ValueTypeI32, ValueTypeI64, ValueTypeF32,
     ValueTypeF64, ValueTypeString}

\* wazeroMemory.Read(packedData): (offset, size, data, err)
Read(h, packedData) ==
    LET u == UnpackUI64(packedData)
        w == ReadWidth(u.dataType, u.size)
    IN IF u.dataType \notin SupportedTags \/ ~InRange(u.offset, w)
       THEN [err |-> TRUE, offset |-> 0, size |-> 0,
             data |-> [t |-> 0, b |-> <<>>]]
       ELSE [err |-> FALSE, offset |-> U32Val(u.offset), size |-> U32Val(u.size),
             data |-> [t |-> u.dataType,
                       b |-> MemRead(h, U32Val(u.offset), U32Val(w))]]

\* the conversion with a case for int that treats it as a uint32
GetOffsetSizeAndDataTypeByConversion_IntAsI32(v) ==
    IF v.t = GoInt THEN [err |-> FALSE, dataType |-> ValueTypeI32, offsetSize |-> 4]
    ELSE IF v.t \notin SupportedTags
    THEN [err |-> TRUE, dataType |-> 0, offsetSize |-> 0]
    ELSE [err |-> FALSE, dataType |-> v.t,
          offsetSize |-> U32Val(ReadWidth(v.t, U32(GoLen(v))))]

\* types.GetOffsetSizeAndDataTypeByConversion(data)
GetOffsetSizeAndDataTypeByConversion(v) ==
    IF v.t \notin SupportedTags
    THEN [err |-> TRUE, dataType |-> 0, offsetSize |-> 0]
    ELSE [err |-> FALSE, dataType |-> v.t,
          offsetSize |-> U32Val(ReadWidth(v.t, U32(GoLen(v))))]

\* utils.Uint64ArrayToBytes: each word as 8 little-endian bytes
RECURSIVE Uint64ArrayToBytes(_)
Uint64ArrayToBytes(data) ==
    IF data = <<>> THEN <<>>
    ELSE Head(data) \o Uint64ArrayToBytes(Tail(data))

\* utils.BytesToUint64Array: len(data)/8 words
BytesToUint64Array(data) ==
    [i \in 1..(Len(data) \div 8) |-> [j \in 1..8 |-> data[8 * (i - 1) + j]]]

\* ------------------------------------------------------------------------
\* The record of one invocation
\* ------------------------------------------------------------------------

Ev(kind, off) == [e |-> kind, off |-> off]

\* offsets that appear in events of one kind, in order
RECURSIVE OffsetsOf(_, _)
OffsetsOf(evs, kind) ==
    IF evs = <<>> THEN <<>>
    ELSE IF Head(evs).e = kind
         THEN <<Head(evs).off>> \o OffsetsOf(Tail(evs), kind)
         ELSE OffsetsOf(Tail(evs), kind)

Count(seq, x) == Cardinality({i \in DOMAIN seq : seq[i] = x})
Has(evs, kind) == \E i \in DOMAIN evs : evs[i].e = kind

\* ------------------------------------------------------------------------
\* HostFunction.convertParamsToStruct
\* ------------------------------------------------------------------------

RECURSIVE convertLoop(_, _, _, _)
\* the loop over hf.Params: read each word, fill params[i], Store
convertLoop(i, stk, h, acc) ==
    IF i > Len(acc.declared) THEN acc
    ELSE LET r == Read(h, stk[i])
         IN IF r.err
            THEN [acc EXCEPT !.err = "paramRead", !.params = <<>>]
            ELSE convertLoop(i + 1, stk, h,
                    [acc EXCEPT
                        !.params = Append(@, [Offset |-> r.offset, Size |-> r.size,
                                              Value |-> r.data]),
                        !.am = Store(@, r.offset, r.size),
                        !.ev = Append(@, Ev("store", r.offset))])

\* convertParamsToStruct that compares the counts before anything else
convertParamsToStruct_CountFirst(declared, stk, h, am) ==
    LET acc0 == [declared |-> declared, params |-> <<>>, am |-> am,
                 ev |-> <<>>, err |-> "none"]
    IN IF Len(declared) # Len(stk) THEN [acc0 EXCEPT !.err = "paramCount"]
       ELSE convertLoop(1, stk, h, acc0)

\* convertParamsToStruct(ctx, m, stackParams): (Params, error), with the
\* tracker after the call and the Stores it made
convertParamsToStruct(declared, stk, h, am) ==
    LET acc0 == [declared |-> declared, params |-> <<>>, am |-> am,
                 ev |-> <<>>, err |-> "none"]
    IN IF Len(declared) = 0 THEN acc0
       ELSE IF Len(declared) # Len(stk) THEN [acc0 EXCEPT !.err = "paramCount"]
       ELSE convertLoop(1, stk, h, acc0)

\* ------------------------------------------------------------------------
\* HostFunction.writeResultsToMemory
\* ------------------------------------------------------------------------

\* the value writeResultsToMemory hands back on every error path:
\* nil packedDatas, nil returnOffsets, the error; the heap and the tracker
\* keep what was done before the error
WriteFailed(st, why) == [st EXCEPT !.err = why, !.ro = {}, !.pds = <<>>]

RECURSIVE writeLoop_TypeCheckAfterMalloc(_, _, _, _)
\* the loop with the type check moved after Malloc and Store
writeLoop_TypeCheckAfterMalloc(i, vals, declared, st) ==
    IF i > Len(vals) THEN st
    ELSE LET c == GetOffsetSizeAndDataTypeByConversion(vals[i])
             m == Malloc(st.heap, c.offsetSize)
             p == PackUI64(c.dataType, U32(m.offset), U32(c.offsetSize))
             done == [st EXCEPT !.heap = MemWrite(m.heap, m.offset, vals[i].b),
                                !.am = Store(@, m.offset, c.offsetSize),
                                !.ev = @ \o <<Ev("malloc", m.offset),
                                               Ev("store", m.offset)>>]
         IN IF c.err THEN WriteFailed(st, "resultConvert")
            ELSE IF m.err THEN WriteFailed(st, "malloc")
            ELSE IF c.dataType # declared[i] THEN WriteFailed(done, "resultType")
            ELSE IF p.err THEN WriteFailed(done, "pack")
            ELSE writeLoop_TypeCheckAfterMalloc(i + 1, vals, declared,
                    [done EXCEPT !.ro = @ \cup {m.offset},
                                 !.pds = Append(@, p.word),
                                 !.ev = Append(@, Ev("write", m.offset))])

RECURSIVE writeLoop(_, _, _, _)
\* the loop over *results: convert, check the type, Malloc, Store, Write, pack
writeLoop(i, vals, declared, st) ==
    IF i > Len(vals) THEN st
    ELSE LET c == GetOffsetSizeAndDataTypeByConversion(vals[i])
             m == Malloc(st.heap, c.offsetSize)
             p == PackUI64(c.dataType, U32(m.offset), U32(c.offsetSize))
         IN IF c.err THEN WriteFailed(st, "resultConvert")
            ELSE IF c.dataType # declared[i] THEN WriteFailed(st, "resultType")
            ELSE IF m.err THEN WriteFailed(st, "malloc")
            ELSE IF p.err
                 THEN WriteFailed(
                        [st EXCEPT !.heap = MemWrite(m.heap, m.offset, vals[i].b),
                                   !.am = Store(@, m.offset, c.offsetSize),
                                   !.ev = @ \o <<Ev("malloc", m.offset),
                                                  Ev("store", m.offset)>>],
                        "pack")
            ELSE writeLoop(i + 1, vals, declared,
                    [st EXCEPT !.heap = MemWrite(m.heap, m.offset, vals[i].b),
                               !.am = Store(@, m.offset, c.offsetSize),
                               !.ro = @ \cup {m.offset},
                               !.pds = Append(@, p.word),
                               !.ev = @ \o <<Ev("malloc", m.offset),
                                              Ev("store", m.offset),
                                              Ev("write", m.offset)>>])

\* the second half without the Store of the array's block
writeGroup_NoStore(st, stk) ==
    LET offsetSize == Len(st.pds) * 8
        m == Malloc(st.heap, offsetSize)
        p == PackUI64(ValueTypePack, U32(m.offset), U32(offsetSize))
    IN IF m.err THEN WriteFailed(st, "malloc")
       ELSE [st EXCEPT !.heap = MemWrite(m.heap, m.offset, Uint64ArrayToBytes(st.pds)),
                       !.ro = @ \cup {m.offset},
                       !.pds = Append(@, p.word),
                       !.stack = [stk EXCEPT ![1] = p.word],
                       !.ev = @ \o <<Ev("malloc", m.offset),
                                      Ev("write", m.offset), Ev("slot", m.offset)>>]

\* the second half: the array of packed words and the final packedData
writeGroup(st, stk) ==
    LET offsetSize == Len(st.pds) * 8
        m == Malloc(st.heap, offsetSize)
        p == PackUI64(ValueTypePack, U32(m.offset), U32(offsetSize))
    IN IF m.err THEN WriteFailed(st, "malloc")
       ELSE [st EXCEPT !.heap = MemWrite(m.heap, m.offset, Uint64ArrayToBytes(st.pds)),
                       !.am = Store(@, m.offset, offsetSize),
                       !.ro = @ \cup {m.offset},
                       !.pds = Append(@, p.word),
                       !.stack = [stk EXCEPT ![1] = p.word],
                       !.ev = @ \o <<Ev("malloc", m.offset), Ev("store", m.offset),
                                      Ev("write", m.offset), Ev("slot", m.offset)>>]

\* writeResultsToMemory that allocates before it compares the lengths
writeResultsToMemory_CheckAfterAlloc(res, declared, stk, h, am) ==
    LET st0 == [heap |-> h, am |-> am, ro |-> {}, pds |-> <<>>, stack |-> stk,
                ev |-> <<>>, err |-> "none"]
        n == IF Len(res.vals) < Len(declared) THEN Len(res.vals) ELSE Len(declared)
        st1 == writeLoop(1, SubSeq(res.vals, 1, n), declared, st0)
    IN IF res.kind = "nil" THEN st0
       ELSE IF st1.err # "none" THEN st1
       ELSE IF Len(res.vals) # Len(declared) THEN WriteFailed(st1, "resultCount")
       ELSE writeGroup(st1, stk)

\* writeResultsToMemory(ctx, m, results, stackParams):
\* (packedDatas, returnOffsets, error), with the heap, the tracker and the
\* stack after the call
writeResultsToMemory(res, declared, stk, h, am) ==
    LET st0 == [heap |-> h, am |-> am, ro |-> {}, pds |-> <<>>, stack |-> stk,
                ev |-> <<>>, err |-> "none"]
        st1 == writeLoop(1, res.vals, declared, st0)
    IN IF res.kind = "nil" THEN st0
       ELSE IF Len(res.vals) # Len(declared) THEN [st0 EXCEPT !.err = "resultCount"]
       ELSE IF st1.err # "none" THEN st1
       ELSE writeGroup(st1, stk)

\* ------------------------------------------------------------------------
\* HostFunction.cleanup, freeParams, freeResults
\* ------------------------------------------------------------------------

\* wazeroMemory.Free(offset): the failAt-th call of the engine's free in
\* this step comes back with an error, the others release the block
FreeCall(st, offset, failAt) ==
    IF st.n + 1 = failAt
    THEN [st EXCEPT !.n = @ + 1, !.err = "free"]
    ELSE [st EXCEPT !.n = @ + 1,
                    !.heap = GuestFree(@, offset),
                    !.am = Delete(@, offset),
                    !.ev = Append(@, Ev("free", offset))]

RECURSIVE freeParamsLoop_NoLoad(_, _, _, _)
\* the loop that frees every param without asking the tracker first
freeParamsLoop_NoLoad(i, ps, st, failAt) ==
    IF i > Len(ps) \/ st.err # "none" THEN st
    ELSE freeParamsLoop_NoLoad(i + 1, ps, FreeCall(st, ps[i].Offset, failAt),
                               failAt)

RECURSIVE freeParamsLoop(_, _, _, _)
\* for _, param := range params: skip what the tracker no longer holds
freeParamsLoop(i, ps, st, failAt) ==
    IF i > Len(ps) \/ st.err # "none" THEN st
    ELSE IF ~Load(st.am, ps[i].Offset)
         THEN freeParamsLoop(i + 1, ps, st, failAt)
         ELSE freeParamsLoop(i + 1, ps, FreeCall(st, ps[i].Offset, failAt), failAt)

RECURSIVE freeOffsetsLoop(_, _, _)
\* for offset := range returnOffsets, in the order the map iteration took
freeOffsetsLoop(order, st, failAt) ==
    IF order = <<>> \/ st.err # "none" THEN st
    ELSE freeOffsetsLoop(Tail(order), FreeCall(st, Head(order), failAt), failAt)

\* the orders in which a range over a map with these keys can visit them
RECURSIVE Orders(_)
Orders(S) ==
    IF S = {} THEN {<<>>}
    ELSE UNION {{<<x>> \o o : o \in Orders(S \ {x})} : x \in S}

FreeState(h, am) == [heap |-> h, am |-> am, ev |-> <<>>, n |-> 0, err |-> "none"]

\* HostFunction.freeParams(m, params)
freeParams(ps, h, am, failAt) ==
    freeParamsLoop(1, ps, FreeState(h, am), failAt)

\* HostFunction.freeResults(m, resultOffsets)
freeResults(order, h, am, failAt) ==
    freeOffsetsLoop(order, FreeState(h, am), failAt)

\* HostFunction.cleanup(m, params, returnOffsets)
cleanup(ps, order, h, am, failAt) ==
    freeOffsetsLoop(order, freeParamsLoop(1, ps, FreeState(h, am), failAt), failAt)

\* ------------------------------------------------------------------------
\* Guest side (mdk): building arguments, reading results
\* ------------------------------------------------------------------------

\* a word whose span lies past the end of linear memory
OutOfRangeWord == PackUI64(ValueTypeBytes, <<0, 0, 1, 0>>, U32(2)).word
\* a word whose tag no Read case lists
BadTagWord == PackUI64(7, U32(0), U32(0)).word

\* the byte count the <T>ToLeakedPtr of a value's type passes to C.malloc:
\* len(data) for bytes and strings, 1 for a byte, 4 for every other scalar
LeakedPtrMalloc(v) ==
    CASE v.t = ValueTypeByte -> 1
      [] v.t \in {ValueTypeI32, ValueTypeI64, ValueTypeF32, ValueTypeF64} -> 4
      [] OTHER -> GoLen(v)

\* the bytes the store through the typed pointer writes at the new block
LeakedPtrStore(v) == Len(v.b)

\* mdk.Alloc(value): malloc, copy, PackUI64
Alloc(h, v) ==
    LET c == GetOffsetSizeAndDataTypeByConversion(v)
        m == Malloc(h, LeakedPtrMalloc(v))
    IN [err |-> m.err,
        heap |-> IF m.err THEN h ELSE MemWrite(m.heap, m.offset, v.b),
        word |-> PackUI64(c.dataType, U32(m.offset), U32(c.offsetSize)).word]

RECURSIVE buildStack(_, _)
\* the guest evaluates its arguments left to right
buildStack(kinds, acc) ==
    IF kinds = <<>> \/ acc.err THEN acc
    ELSE LET k == Head(kinds)
             a == Alloc(acc.heap, IF k = "hi" THEN BytesHi ELSE U32Seven)
         IN buildStack(Tail(kinds),
              CASE k \in {"hi", "seven"} ->
                     [err |-> a.err, heap |-> a.heap,
                      stack |-> Append(acc.stack, a.word)]
                [] k = "zero" -> [acc EXCEPT !.stack = Append(@, Zero64)]
                [] k = "oob" -> [acc EXCEPT !.stack = Append(@, OutOfRangeWord)]
                [] k = "badtag" -> [acc EXCEPT !.stack = Append(@, BadTagWord)]
                [] k = "same" -> [acc EXCEPT !.stack = Append(@, acc.stack[1])])

\* the guest memory after free() clobbered the blocks it released
Clobber(h) ==
    [s \in Slots |-> IF h[s].live THEN h[s]
                     ELSE [h[s] EXCEPT !.data = [i \in 1..Len(@) |-> 0]]]

\* does a guest load of n bytes at address a touch a block that is not live
TouchesFreed(h, a, n) ==
    \E s \in Slots : ~h[s].live /\ a < Addr(s) + SlotCap /\ a + n > Addr(s) /\ n > 0

\* mdk.ReadOne(packedData)
ReadOne(h, pd) ==
    LET u == UnpackUI64(pd)
        w == U32Val(ReadWidth(u.dataType, u.size))
    IN IF pd = Zero64 \/ u.dataType \notin SupportedTags
       THEN [nil |-> TRUE, t |-> 0, b |-> <<>>, freed |-> FALSE]
       ELSE [nil |-> FALSE, t |-> u.dataType,
             b |-> MemRead(h, U32Val(u.offset), w),
             freed |-> TouchesFreed(h, U32Val(u.offset), w)]

\* mdk.Results(resultsOffset): what the guest gets out of the return slot
Results(h, resultsOffset) ==
    LET u == UnpackUI64(resultsOffset)
        arr == BytesToUint64Array(MemRead(h, U32Val(u.offset), U32Val(u.size)))
        ones == [i \in DOMAIN arr |-> ReadOne(h, arr[i])]
    IN IF resultsOffset = Zero64
       THEN [status |-> "nil", vals |-> <<>>, uaf |-> FALSE]
       ELSE IF u.dataType # ValueTypePack
       THEN [status |-> "panic", vals |-> <<>>, uaf |-> FALSE]
       ELSE [status |-> "read",
             vals |-> [i \in DOMAIN ones |-> [t |-> ones[i].t, b |-> ones[i].b]],
             uaf |-> \/ TouchesFreed(h, U32Val(u.offset), U32Val(u.size))
                     \/ \E i \in DOMAIN ones : ones[i].freed]

NoView == [status |-> "none", vals |-> <<>>, uaf |-> FALSE]

\* MultiPackedData.Read of mdk: nil for 0 and for a word whose tag is not
\* Pack, else the size/8 words of the block
MultiPackedDataRead(h, mpd) ==
    LET u == UnpackUI64(mpd)
    IN IF mpd = Zero64 \/ u.dataType # ValueTypePack
       THEN [nil |-> TRUE, pds |-> <<>>]
       ELSE [nil |-> FALSE,
             pds |-> BytesToUint64Array(
                        MemRead(h, U32Val(u.offset), 8 * (U32Val(u.size) \div 8)))]

\* mdk.Read<T>Pack(pd): unpackDataAndCheckType refuses a word whose tag is
\* not the one of T, else the bytes of the value
ReadPackAs(h, pd, expectedType) ==
    LET u == UnpackUI64(pd)
    IN IF u.dataType # expectedType
       THEN [ok |-> FALSE, b |-> <<>>]
       ELSE [ok |-> TRUE,
             b |-> MemRead(h, U32Val(u.offset),
                           U32Val(ReadWidth(u.dataType, u.size)))]

\* ------------------------------------------------------------------------
\* The "proxy" revision: preHostFunctionCallback, Memory.Write...Pack
\* ------------------------------------------------------------------------

\* HostFunction.preHostFunctionCallback: the words of the stack as
\* PackedData, nothing read, nothing registered
preHostFunctionCallback(declared, stk) ==
    IF Len(declared) = 0 THEN [pds |-> <<>>, err |-> "none"]
    ELSE IF Len(declared) # Len(stk) THEN [pds |-> <<>>, err |-> "paramCount"]
    ELSE [pds |-> stk, err |-> "none"]

\* the tag each wazeroMemory.Write<T>Pack hands to PackUI64, by the tag of T
WritePackTag(t) == IF t = ValueTypeI64 THEN ValueTypeI32 ELSE t

\* wazeroMemory.Write<T>Pack(v): Malloc, Write<T>, PackUI64; 0 on an error
MemoryWritePack(h, v) ==
    LET size == U32Val(ReadWidth(v.t, U32(Len(v.b))))
        m == Malloc(h, size)
        p == PackUI64(WritePackTag(v.t), U32(m.offset), U32(size))
    IN IF m.err THEN [err |-> TRUE, heap |-> h, word |-> Zero64]
       ELSE IF p.err THEN [err |-> TRUE, heap |-> m.heap, word |-> Zero64]
       ELSE [err |-> FALSE, heap |-> MemWrite(m.heap, m.offset, v.b),
             word |-> p.word]

RECURSIVE writePacks(_, _)
\* the arguments of WriteMultiPack, evaluated left to right
writePacks(vals, acc) ==
    IF vals = <<>> THEN acc
    ELSE LET w == MemoryWritePack(acc.heap, Head(vals))
         IN writePacks(Tail(vals),
                [err |-> acc.err \/ w.err, heap |-> w.heap,
                 pds |-> Append(acc.pds, w.word)])

\* wazeroMemory.WriteMultiPack(pds...): make([]uint64, size) holds size zero
\* words before the appended ones; the word is tagged String
MemoryWriteMultiPack(h, pds) ==
    LET size == Len(pds) * 8
        m == Malloc(h, size)
        pdsU64 == [i \in 1..size |-> Zero64] \o pds
        bytes == Uint64ArrayToBytes(pdsU64)
        p == PackUI64(ValueTypeString, U32(m.offset), U32(size))
    IN IF size = 0 THEN [err |-> "none", heap |-> h, word |-> Zero64]
       ELSE IF m.err THEN [err |-> "malloc", heap |-> h, word |-> Zero64]
       ELSE IF m.offset + Len(bytes) > MemSize
            THEN [err |-> "write", heap |-> m.heap, word |-> Zero64]
       ELSE IF p.err
            THEN [err |-> "pack", heap |-> MemWriteSpan(m.heap, m.offset, bytes),
                  word |-> Zero64]
       ELSE [err |-> "none", heap |-> MemWriteSpan(m.heap, m.offset, bytes),
             word |-> p.word]

\* ------------------------------------------------------------------------
\* wazeroHostFunctionCallback: where control goes after each step
\* ------------------------------------------------------------------------

\* after convertParamsToStruct: only the "panic" revision stops on an error,
\* the others log it and go on to the callback
AfterDecode(r, err) ==
    IF r = "panic" /\ err # "none" THEN "panicked" ELSE "callback"

\* a bridge that runs its cleanup before it encodes the results
AfterCallback_CleanupFirst(r, panics) ==
    IF panics THEN (IF r = "deferred" THEN "freeParams" ELSE "panicked")
    ELSE IF r = "deferred" THEN "freeResults" ELSE "cleanup"

\* after hf.Callback: a panic of the callback unwinds the bridge; the
\* "deferred" revision has registered freeParams by then
AfterCallback(r, panics) ==
    IF panics THEN (IF r = "deferred" THEN "freeParams" ELSE "panicked")
    ELSE "encode"

\* after writeResultsToMemory: the "panic" revision stops on an error; the
\* "deferred" revision runs its deferred calls, last registered first
AfterEncode(r, err) ==
    IF r = "panic" /\ err # "none" THEN "panicked"
    ELSE IF r = "deferred" THEN "freeResults"
    ELSE "cleanup"

\* after a cleanup step that ends the function
AfterCleanup(err, unwinding) ==
    IF err # "none" \/ unwinding THEN "panicked" ELSE "returned"

\* the error the bridge logs, as an event
ErrEv(err) == IF err = "none" THEN <<>> ELSE <<Ev(err, 0)>>

\* ------------------------------------------------------------------------
\* Initial state and actions
\* ------------------------------------------------------------------------

\* nothing written by the callback yet
NoPacked == [op |-> "none", vals |-> <<>>, pds |-> <<>>, mpd |-> Zero64,
             err |-> FALSE, mpdErr |-> "none"]

\* the in-flight invocations that share the tracker of one registration
Goroutines == {1, 2}

NoTrk == [op |-> "none", key |-> 0, size |-> 0, before |-> NewAllocationMap,
          panicked |-> FALSE, ld |-> [v |-> 0, ok |-> FALSE], n |-> 0]
IdleGoroutines == [g \in Goroutines |-> [pc |-> "idle", key |-> 0, size |-> 0, v |-> 0,
                                         tmp |-> 0]]

\* no guest function invoked yet
NoInvoke == [pc |-> "none", rev |-> "handle", n |-> 0, params |-> <<>>,
             prog |-> [kind |-> "void", vals |-> <<>>, word |-> Zero64],
             guestFrees |-> FALSE, fault |-> [op |-> "none", at |-> 0],
             conv |-> <<>>, stack |-> <<>>, called |-> 0,
             am |-> NewAllocationMap, err |-> "none", word |-> Zero64,
             hasHandle |-> FALSE, atCall |-> EmptyHeap, before |-> EmptyHeap,
             reads |-> 0, frees |-> 0, freeErr |-> 0, freeFailed |-> {},
             rr |-> [err |-> "none", results |-> <<>>, ev |-> <<>>],
             first |-> [err |-> "none", results |-> <<>>, ev |-> <<>>]]

\* no call of log yet
NoLog == [pc |-> "none", rev |-> "part_027", msg |-> <<>>, lvl |-> 0,
          params |-> <<>>, out |-> <<>>, panicked |-> FALSE]

\* no tracker operation yet
NoRegOp == [op |-> "none", r |-> 0, before |-> <<>>, ran |-> "none"]

\* a runtime that has instantiated no module
NoRegistry == [rev |-> "runtime_wazero", objs |-> <<>>, regs |-> <<>>, mods |-> 0,
               ops |-> 0, last |-> NoRegOp]

NoCodec == [op |-> "none", dataType |-> 0, offset |-> U32(0), size |-> U32(0),
            err |-> FALSE, logged |-> FALSE, word |-> Zero64,
            un |-> [dataType |-> 0, offset |-> U32(0), size |-> U32(0)],
            re |-> Zero64]

Init ==
    /\ rev \in Revisions
    /\ hostRev \in HostRevisions
    /\ hostRev = "iota" => rev \in {"cleanup", "panic"}
    /\ \E pn \in DeclaredNames, rn \in DeclaredNames :
         /\ hfParams = Declare(hostRev, pn)
         /\ hfResults = Declare(hostRev, rn)
    /\ heap = EmptyHeap
    /\ allocationMap = NewAllocationMap
    /\ stack = <<>>
    /\ stackIn = <<>>
    /\ pc = "idle"
    /\ params = <<>>
    /\ results = NilResults
    /\ returnOffsets = {}
    /\ panicking = FALSE
    /\ events = <<>>
    /\ guestView = NoView
    /\ calls = 0
    /\ codec = NoCodec
    /\ packed = NoPacked
    /\ amRev = "part_021"
    /\ trk = NoTrk
    /\ gor = IdleGoroutines
    /\ gf = NoInvoke
    /\ reg = NoRegistry
    /\ lg = NoLog

\* the stack the engine hands to a function registered without parameters:
\* the one slot it reserves for the result, holding 0; the registration that
\* goes with the "proxy" revision declares a result only when hf.Returns is
\* not empty, and without one the stack has no slot at all
NoParamStack(r, declaredResults) ==
    IF r = "proxy" /\ declaredResults = <<>> THEN <<>> ELSE <<"zero">>

\* the guest calls the imported host function with a stack of packed words
CallHost ==
    /\ pc = "idle"
    /\ calls < MaxCalls
    /\ \E kinds \in GuestStacks :
         LET b == buildStack(kinds, [err |-> FALSE, heap |-> heap, stack |-> <<>>])
         IN /\ hfParams = <<>> => kinds = NoParamStack(rev, hfResults)
            /\ hfParams # <<>> => kinds # <<>>
            /\ ~b.err
            /\ heap' = b.heap
            /\ stack' = b.stack
            /\ stackIn' = b.stack
    /\ pc' = IF rev = "proxy" THEN "pre" ELSE "decode"
    /\ calls' = calls + 1
    /\ params' = <<>>
    /\ results' = NilResults
    /\ returnOffsets' = {}
    /\ panicking' = FALSE
    /\ events' = <<>>
    /\ guestView' = NoView
    /\ UNCHANGED <<rev, hfParams, hfResults, allocationMap, codec, hostRev, packed, amRev, trk, gor, gf, reg, lg>>

\* params, err := hf.convertParamsToStruct(ctx, moduleProxy, stack)
Decode ==
    /\ pc = "decode"
    /\ LET c == convertParamsToStruct(hfParams, stack, heap, allocationMap)
       IN /\ params' = c.params
          /\ allocationMap' = c.am
          /\ events' = events \o <<Ev("decode", 0)>> \o c.ev \o ErrEv(c.err)
          /\ pc' = AfterDecode(rev, c.err)
    /\ UNCHANGED <<rev, hfParams, hfResults, heap, stack, stackIn, results,
                   returnOffsets, panicking, guestView, calls, codec, hostRev, packed, amRev, trk, gor, gf, reg, lg>>

\* results := hf.Callback(ctx, moduleProxy, params)
Callback ==
    /\ pc = "callback"
    /\ \E o \in CallbackOutcomes :
         /\ results' = o
         /\ panicking' = (o.kind = "panic")
         /\ pc' = AfterCallback(rev, o.kind = "panic")
    /\ events' = Append(events, Ev("callback", 0))
    /\ UNCHANGED <<rev, hfParams, hfResults, heap, allocationMap, stack, stackIn,
                   params, returnOffsets, guestView, calls, codec, hostRev, packed, amRev, trk, gor, gf, reg, lg>>

\* _, returnOffsets, err := hf.writeResultsToMemory(ctx, moduleProxy, results, stack)
Encode ==
    /\ pc = "encode"
    /\ LET w == writeResultsToMemory(results, hfResults, stack, heap, allocationMap)
       IN /\ heap' = w.heap
          /\ allocationMap' = w.am
          /\ stack' = w.stack
          /\ returnOffsets' = w.ro
          /\ events' = events \o <<Ev("encode", 0)>> \o w.ev \o ErrEv(w.err)
                          \o <<Ev("encoded", 0)>>
          /\ pc' = AfterEncode(rev, w.err)
    /\ UNCHANGED <<rev, hfParams, hfResults, stackIn, params, results, panicking,
                   guestView, calls, codec, hostRev, packed, amRev, trk, gor, gf, reg, lg>>

\* err = hf.cleanup(moduleProxy, params, returnOffsets); panic(err) on error
Cleanup ==
    /\ pc = "cleanup"
    /\ \E order \in Orders(returnOffsets), failAt \in 0..MaxFreeFault :
         LET c == cleanup(params, order, heap, allocationMap, failAt)
         IN /\ heap' = c.heap
            /\ allocationMap' = c.am
            /\ events' = events \o <<Ev("cleanup", 0)>> \o c.ev \o ErrEv(c.err)
            /\ pc' = AfterCleanup(c.err, FALSE)
    /\ UNCHANGED <<rev, hfParams, hfResults, stack, stackIn, params, results,
                   returnOffsets, panicking, guestView, calls, codec, hostRev, packed, amRev, trk, gor, gf, reg, lg>>

\* the deferred hf.freeResults(moduleProxy, returnOffsets); panic(errF) on error
FreeResults ==
    /\ pc = "freeResults"
    /\ \E order \in Orders(returnOffsets), failAt \in 0..MaxFreeFault :
         LET c == freeResults(order, heap, allocationMap, failAt)
         IN /\ heap' = c.heap
            /\ allocationMap' = c.am
            /\ events' = events \o <<Ev("freeResults", 0)>> \o c.ev \o ErrEv(c.err)
            /\ panicking' = (c.err # "none")
    /\ pc' = "freeParams"
    /\ UNCHANGED <<rev, hfParams, hfResults, stack, stackIn, params, results,
                   returnOffsets, guestView, calls, codec, hostRev, packed, amRev, trk, gor, gf, reg, lg>>

\* the deferred hf.freeParams(moduleProxy, params); panic(errF) on error
FreeParams ==
    /\ pc = "freeParams"
    /\ \E failAt \in 0..MaxFreeFault :
         LET c == freeParams(params, heap, allocationMap, failAt)
         IN /\ heap' = c.heap
            /\ allocationMap' = c.am
            /\ events' = events \o <<Ev("freeParams", 0)>> \o c.ev \o ErrEv(c.err)
            /\ pc' = AfterCleanup(c.err, panicking)
    /\ UNCHANGED <<rev, hfParams, hfResults, stack, stackIn, params, results,
                   returnOffsets, panicking, guestView, calls, codec, hostRev, packed, amRev, trk, gor, gf, reg, lg>>

\* the call returned: the guest reads the return slot with mdk.Results; what
\* it finds in blocks that were released is either still there or clobbered
GuestReadResults ==
    /\ pc = "returned"
    /\ \E h \in {heap, Clobber(heap)} :
         guestView' = Results(h, stack[1])
    /\ pc' = "idle"
    /\ UNCHANGED <<rev, hfParams, hfResults, heap, allocationMap, stack, stackIn,
                   params, results, returnOffsets, panicking, events, calls,
                   codec, hostRev, packed, amRev, trk, gor, gf, reg, lg>>

\* the bridge panicked: the engine aborts the guest's call
Abort ==
    /\ pc = "panicked"
    /\ pc' = "idle"
    /\ guestView' = [status |-> "trap", vals |-> <<>>, uaf |-> FALSE]
    /\ UNCHANGED <<rev, hfParams, hfResults, heap, allocationMap, stack, stackIn,
                   params, results, returnOffsets, panicking, events, calls,
                   codec, hostRev, packed, amRev, trk, gor, gf, reg, lg>>

\* params, err := hf.preHostFunctionCallback(ctx, moduleProxy, stack): the
\* error is logged and the callback runs all the same
PreCallback ==
    /\ pc = "pre"
    /\ LET c == preHostFunctionCallback(hfParams, stack)
       IN events' = events \o <<Ev("decode", 0)>> \o ErrEv(c.err)
    /\ pc' = "proxyCallback"
    /\ UNCHANGED <<rev, hfParams, hfResults, heap, allocationMap, stack, stackIn,
                   params, results, returnOffsets, panicking, guestView, calls,
                   codec, hostRev, packed, amRev, trk, gor, gf, reg, lg>>

\* results := hf.Callback(ctx, moduleProxy, params) of the "proxy" revision:
\* the callback panics, or writes its values with Memory.Write<T>Pack and
\* returns Memory.WriteMultiPack of their words
ProxyCallback ==
    /\ pc = "proxyCallback"
    /\ \/ /\ results' = Panics
          /\ panicking' = TRUE
          /\ pc' = "panicked"
          /\ UNCHANGED <<heap, packed>>
       \/ \E vals \in ProxyValueLists :
            LET w == writePacks(vals, [err |-> FALSE, heap |-> heap, pds |-> <<>>])
                m == MemoryWriteMultiPack(w.heap, w.pds)
            IN /\ heap' = m.heap
               /\ packed' = [op |-> "WriteMultiPack", vals |-> vals,
                              pds |-> w.pds, mpd |-> m.word, err |-> w.err,
                              mpdErr |-> m.err]
               /\ results' = ResultList(vals)
               /\ panicking' = FALSE
               /\ pc' = "post"
    /\ events' = Append(events, Ev("callback", 0))
    /\ UNCHANGED <<rev, hfParams, hfResults, allocationMap, stack, stackIn,
                   params, returnOffsets, guestView, calls, codec, hostRev,
                   amRev, trk, gor, gf, reg, lg>>

\* hf.postHostFunctionCallback: stackParams[0] = uint64(mpd), which panics
\* with an index out of range when the stack has no slot
PostCallback ==
    /\ pc = "post"
    /\ \/ /\ stack # <<>>
          /\ stack' = [stack EXCEPT ![1] = packed.mpd]
          /\ events' = Append(events, Ev("post", 0))
          /\ pc' = "returned"
       \/ /\ stack = <<>>
          /\ stack' = stack
          /\ events' = Append(events, Ev("indexOutOfRange", 0))
          /\ pc' = "panicked"
    /\ UNCHANGED <<rev, hfParams, hfResults, heap, allocationMap, stackIn,
                   params, results, returnOffsets, panicking, guestView, calls,
                   codec, hostRev, packed, amRev, trk, gor, gf, reg, lg>>

Next ==
    \/ CallHost
    \/ PreCallback
    \/ ProxyCallback
    \/ PostCallback
    \/ Decode
    \/ Callback
    \/ Encode
    \/ Cleanup
    \/ FreeResults
    \/ FreeParams
    \/ GuestReadResults
    \/ Abort

Spec == Init /\ [][Next]_vars

TypeOK ==
    /\ pc \in {"idle", "decode", "callback", "encode", "cleanup", "freeResults",
               "freeParams", "returned", "panicked", "pre", "proxyCallback",
               "post"}
    /\ calls \in 0..MaxCalls
    /\ allocationMap.Size >= 0

\* ------------------------------------------------------------------------
\* The codec on its own: pack and unpack over sampled inputs
\* ------------------------------------------------------------------------

\* largest of the small byte values sampled in every position of a size
MaxSampleByte == 1

SampleBytes == 0..MaxSampleByte \cup {128, 255}
SizeSamples == {<<a, b, c, d>> : a \in SampleBytes, b \in SampleBytes,
                                 c \in SampleBytes, d \in SampleBytes}
                  \cup {<<86, 52, 18, 0>>, <<8, 0, 0, 0>>}
OffsetSamples == {<<a, b, c, d>> : a \in {0, 255}, b \in {0, 255},
                                   c \in {0, 255}, d \in {0, 255}}
                  \cup {<<120, 86, 52, 18>>}
TagSamples == {ValueTypeBytes, ValueTypeByte, ValueTypeString, 7, 128, ValueTypePack}

\* mdk.WriteBytesPack(data): offset of the copy, len(data)
WriteBytesPack(offset, length) == packUI64(ValueTypeBytes, offset, length)
\* mdk.WriteStringPack(data)
WriteStringPack(offset, length) == packUI64(ValueTypeString, offset, length)
\* mdk.WriteMultiPack(params...): offset of the array, 8 * len(params)
WriteMultiPack(offset, packedBytesSize) == packUI64(ValueTypePack, offset, packedBytesSize)

InitCodec ==
    /\ rev = "cleanup"
    /\ hfParams = <<>>
    /\ hfResults = <<>>
    /\ heap = EmptyHeap
    /\ allocationMap = NewAllocationMap
    /\ stack = <<>>
    /\ stackIn = <<>>
    /\ pc = "idle"
    /\ params = <<>>
    /\ results = NilResults
    /\ returnOffsets = {}
    /\ panicking = FALSE
    /\ events = <<>>
    /\ guestView = NoView
    /\ calls = 0
    /\ hostRev = "types"
    /\ packed = NoPacked
    /\ amRev = "part_021"
    /\ trk = NoTrk
    /\ gor = IdleGoroutines
    /\ gf = NoInvoke
    /\ reg = NoRegistry
    /\ lg = NoLog
    /\ \E t \in TagSamples, o \in OffsetSamples, s \in SizeSamples :
         codec = [NoCodec EXCEPT !.op = "input", !.dataType = t, !.offset = o,
                                 !.size = s]

\* the host packs the triple with utils.PackUI64
HostPack ==
    /\ codec.op = "input"
    /\ LET p == PackUI64(codec.dataType, codec.offset, codec.size)
       IN codec' = [codec EXCEPT !.op = "PackUI64", !.err = p.err, !.word = p.word]
    /\ UNCHANGED bridgeVars

\* the word PackUI64 returned is unpacked with utils.UnpackUI64
HostUnpack ==
    /\ codec.op = "PackUI64"
    /\ ~codec.err
    /\ codec' = [codec EXCEPT !.op = "UnpackUI64", !.un = UnpackUI64(codec.word)]
    /\ UNCHANGED bridgeVars

\* the guest packs what it wrote with one of the Write...Pack functions
GuestWritePack ==
    /\ codec.op = "input"
    /\ \E f \in {"WriteBytesPack", "WriteStringPack", "WriteMultiPack"} :
         LET o == codec.offset
             s == codec.size
             p == CASE f = "WriteBytesPack" -> WriteBytesPack(o, s)
                    [] f = "WriteStringPack" -> WriteStringPack(o, s)
                    [] f = "WriteMultiPack" -> WriteMultiPack(o, s)
         IN /\ f = "WriteBytesPack" => codec.dataType = ValueTypeBytes
            /\ f = "WriteStringPack" => codec.dataType = ValueTypeString
            /\ f = "WriteMultiPack" =>
                 codec.dataType = ValueTypePack /\ s[1] % 8 = 0 /\ s # U32(0)
            /\ codec' = [codec EXCEPT !.op = f, !.err = p.err,
                                      !.logged = p.logged, !.word = p.word]
    /\ UNCHANGED bridgeVars

\* a 64-bit word given byte by byte: the low three bytes, the four bytes
\* above them and the top byte are sampled independently
WordOf(t, o, s) == <<s[1], s[2], s[3], o[1], o[2], o[3], o[4], t>>

\* the host unpacks a word it was handed with utils.UnpackUI64 and packs the
\* three fields again with utils.PackUI64
HostUnpackPack ==
    /\ codec.op = "input"
    /\ LET w == WordOf(codec.dataType, codec.offset, codec.size)
           u == UnpackUI64(w)
           p == PackUI64(u.dataType, u.offset, u.size)
       IN codec' = [codec EXCEPT !.op = "UnpackPack", !.word = w, !.un = u,
                                 !.err = p.err, !.re = p.word]
    /\ UNCHANGED bridgeVars

NextCodec ==
    \/ HostPack
    \/ HostUnpack
    \/ GuestWritePack
    \/ HostUnpackPack

SpecCodec == InitCodec /\ [][NextCodec]_vars

GuestPackOps == {"WriteBytesPack", "WriteStringPack", "WriteMultiPack"}

\* ------------------------------------------------------------------------
\* The allocation tracker on its own: one caller, then two goroutines
\* ------------------------------------------------------------------------

\* tracker operations one caller makes in a row
MaxTrackerOps == 3

TrackerRevisions == {"part_021", "part_020"}
TrackerKeys == {1, 2, 5, 9}
TrackerSizes == {100, 200}

InitTracker ==
    /\ rev = "cleanup"
    /\ hostRev = "types"
    /\ hfParams = <<>>
    /\ hfResults = <<>>
    /\ heap = EmptyHeap
    /\ allocationMap = NewAllocationMap
    /\ stack = <<>>
    /\ stackIn = <<>>
    /\ pc = "idle"
    /\ params = <<>>
    /\ results = NilResults
    /\ returnOffsets = {}
    /\ panicking = FALSE
    /\ events = <<>>
    /\ guestView = NoView
    /\ calls = 0
    /\ codec = NoCodec
    /\ packed = NoPacked
    /\ amRev \in TrackerRevisions
    /\ trk = NoTrk
    /\ gor = IdleGoroutines
    /\ gf = NoInvoke
    /\ reg = NoRegistry
    /\ lg = NoLog

trackerFrame == <<rev, hostRev, hfParams, hfResults, heap, stack, stackIn, pc,
                  params, results, returnOffsets, panicking, events, guestView,
                  calls, codec, packed, amRev, gf, reg, lg>>

\* no goroutine has entered the tracker and the single caller is alive
SingleCaller ==
    /\ \A g \in Goroutines : gor[g].pc = "idle"
    /\ ~trk.panicked
    /\ trk.n < MaxTrackerOps

\* am.Store(k, s) by the single caller
TrackerStore ==
    /\ SingleCaller
    /\ \E k \in TrackerKeys, sz \in TrackerSizes :
         /\ allocationMap' = Store(allocationMap, k, sz)
         /\ trk' = [trk EXCEPT !.op = "Store", !.key = k, !.size = sz,
                               !.before = allocationMap, !.n = @ + 1]
    /\ UNCHANGED <<trackerFrame, gor>>

\* am.Load(k) by the single caller
TrackerLoad ==
    /\ SingleCaller
    /\ \E k \in TrackerKeys :
         trk' = [trk EXCEPT !.op = "Load", !.key = k, !.before = allocationMap,
                            !.ld = [v |-> LoadValue(allocationMap, k),
                                    ok |-> Load(allocationMap, k)],
                            !.n = @ + 1]
    /\ UNCHANGED <<trackerFrame, gor, allocationMap>>

\* am.Delete(k) by the single caller, in the revision the tracker is
TrackerDelete ==
    /\ SingleCaller
    /\ \E k \in TrackerKeys :
         LET d == IF amRev = "part_020"
                  THEN DeleteUnchecked(allocationMap, k)
                  ELSE [panicked |-> FALSE, am |-> Delete(allocationMap, k)]
         IN /\ allocationMap' = d.am
            /\ trk' = [trk EXCEPT !.op = "Delete", !.key = k,
                                  !.before = allocationMap,
                                  !.panicked = d.panicked, !.n = @ + 1]
    /\ UNCHANGED <<trackerFrame, gor>>

\* an invocation enters Store for a block of its own
GoBegin(g) ==
    /\ gor[g].pc = "idle"
    /\ trk.op = "none"
    /\ \E sz \in TrackerSizes :
         gor' = [gor EXCEPT ![g] = [pc |-> "storeMap", key |-> Addr(g),
                                    size |-> sz, v |-> 0, tmp |-> 0]]
    /\ UNCHANGED <<trackerFrame, trk, allocationMap>>

\* am.Map.Store(offset, size)
GoStoreMap(g) ==
    /\ gor[g].pc = "storeMap"
    /\ allocationMap' = MapStore(allocationMap, gor[g].key, gor[g].size)
    /\ gor' = [gor EXCEPT ![g].pc = "storeRead"]
    /\ UNCHANGED <<trackerFrame, trk>>

\* the load of am.Size in am.Size += size and in am.Size -= v
GoSizeRead(g) ==
    /\ gor[g].pc \in {"storeRead", "deleteRead"}
    /\ gor' = [gor EXCEPT ![g].tmp = allocationMap.Size,
                          ![g].pc = IF gor[g].pc = "storeRead" THEN "storeWrite"
                                    ELSE "deleteWrite"]
    /\ UNCHANGED <<trackerFrame, trk, allocationMap>>

\* the store to am.Size of the value computed from what was loaded; a Size
\* below 0 stands for the uint32 that wrapped around
GoSizeWrite(g) ==
    /\ gor[g].pc \in {"storeWrite", "deleteWrite"}
    /\ allocationMap' =
         [allocationMap EXCEPT !.Size = IF gor[g].pc = "storeWrite"
                                        THEN gor[g].tmp + gor[g].size
                                        ELSE gor[g].tmp - gor[g].v]
    /\ gor' = [gor EXCEPT ![g].pc = IF gor[g].pc = "storeWrite" THEN "deleteMap"
                                    ELSE "done"]
    /\ UNCHANGED <<trackerFrame, trk>>

\* am.Map.LoadAndDelete(offset), when the invocation cleans up
GoDeleteMap(g) ==
    /\ gor[g].pc = "deleteMap"
    /\ LET r == MapLoadAndDelete(allocationMap, gor[g].key)
       IN /\ allocationMap' = r.am
          /\ gor' = [gor EXCEPT ![g].v = r.v,
                                ![g].pc = IF r.ok THEN "deleteRead"
                                          ELSE IF amRev = "part_020" THEN "panicked"
                                          ELSE "done"]
    /\ UNCHANGED <<trackerFrame, trk>>

NextTracker ==
    \/ TrackerStore
    \/ TrackerLoad
    \/ TrackerDelete
    \/ \E g \in Goroutines : GoBegin(g)
    \/ \E g \in Goroutines : GoStoreMap(g)
    \/ \E g \in Goroutines : GoSizeRead(g)
    \/ \E g \in Goroutines : GoSizeWrite(g)
    \/ \E g \in Goroutines : GoDeleteMap(g)

SpecTracker == InitTracker /\ [][NextTracker]_vars

\* ------------------------------------------------------------------------
\* Calling a guest function from the host: wazeroGuestFunction.Invoke
\* ------------------------------------------------------------------------

\* guest functions invoked in one behaviour
MaxInvokes == 2
\* ReadResults calls on one result handle
MaxReads == 2

\* the revisions of Invoke: the one that returns a *GuestFunctionResult, and
\* the one that registers every argument with the guest function's tracker
\* and runs cleanup as it returns
InvokeRevisions == {"handle", "tracked"}

\* the params ...any of an Invoke
InvokeParams ==
    {<<>>, <<BytesHi>>, <<BytesNone>>, <<ByteOne>>, <<U32Seven>>, <<U64Year>>,
     <<F32Val>>, <<F64Val>>, <<StrWasify>>, <<IntNine>>, <<BoolTrue>>,
     <<StructEmpty>>, <<HugeBytes>>, <<BytesHi, U32Seven>>, <<StrHost, IntNine>>,
     <<IntNine, BytesHi>>, <<U32Seven, HugeBytes>>, <<ByteOne, F64Val, StrHost>>}

\* what the engine does wrong during one Invoke: nothing, the at-th malloc
\* or write comes back with an error, or the call of the exported function
NoFault == [op |-> "none", at |-> 0]
InvokeFaults(n) ==
    {NoFault, [op |-> "call", at |-> 0]} \cup
    {[op |-> o, at |-> i] : o \in {"malloc", "write"}, i \in 1..n}

\* the nil interface value
GoNil == 96
Nil == [t |-> GoNil, b |-> <<>>]

RECURSIVE invokeLoop_NewestFirst(_, _, _, _, _)
\* the loop that puts each new word in front of the ones before it
invokeLoop_NewestFirst(i, ps, st, fault, r) ==
    IF i > Len(ps) THEN st
    ELSE LET c == GetOffsetSizeAndDataTypeByConversion(ps[i])
             m == IF fault = [op |-> "malloc", at |-> i]
                  THEN [err |-> TRUE, offset |-> 0, heap |-> st.heap]
                  ELSE Malloc(st.heap, c.offsetSize)
             p == PackUI64(c.dataType, U32(m.offset), U32(c.offsetSize))
             conv == [st EXCEPT !.conv = Append(@, c)]
             alloc == [conv EXCEPT
                          !.heap = m.heap,
                          !.am = IF r = "tracked"
                                 THEN Store(@, m.offset, c.offsetSize) ELSE @,
                          !.ev = @ \o <<Ev("malloc", m.offset)>>
                                   \o (IF r = "tracked"
                                       THEN <<Ev("store", m.offset)>> ELSE <<>>)]
             wrote == [alloc EXCEPT !.heap = MemWrite(@, m.offset, ps[i].b),
                                    !.ev = Append(@, Ev("write", m.offset))]
         IN IF c.err THEN [conv EXCEPT !.err = "convert"]
            ELSE IF m.err
                 THEN [conv EXCEPT !.err = "malloc",
                                   !.ev = Append(@, Ev("malloc", 0))]
            ELSE IF fault = [op |-> "write", at |-> i]
                 THEN [alloc EXCEPT !.err = "write"]
            ELSE IF p.err THEN [wrote EXCEPT !.err = "pack"]
            ELSE invokeLoop_NewestFirst(i + 1, ps, [wrote EXCEPT !.stack = <<p.word>> \o @],
                            fault, r)

RECURSIVE invokeLoop(_, _, _, _, _)
\* for i, p := range params: convert, Malloc, (Store,) Write, PackUI64
invokeLoop(i, ps, st, fault, r) ==
    IF i > Len(ps) THEN st
    ELSE LET c == GetOffsetSizeAndDataTypeByConversion(ps[i])
             m == IF fault = [op |-> "malloc", at |-> i]
                  THEN [err |-> TRUE, offset |-> 0, heap |-> st.heap]
                  ELSE Malloc(st.heap, c.offsetSize)
             p == PackUI64(c.dataType, U32(m.offset), U32(c.offsetSize))
             conv == [st EXCEPT !.conv = Append(@, c)]
             alloc == [conv EXCEPT
                          !.heap = m.heap,
                          !.am = IF r = "tracked"
                                 THEN Store(@, m.offset, c.offsetSize) ELSE @,
                          !.ev = @ \o <<Ev("malloc", m.offset)>>
                                   \o (IF r = "tracked"
                                       THEN <<Ev("store", m.offset)>> ELSE <<>>)]
             wrote == [alloc EXCEPT !.heap = MemWrite(@, m.offset, ps[i].b),
                                    !.ev = Append(@, Ev("write", m.offset))]
         IN IF c.err THEN [conv EXCEPT !.err = "convert"]
            ELSE IF m.err
                 THEN [conv EXCEPT !.err = "malloc",
                                   !.ev = Append(@, Ev("malloc", 0))]
            ELSE IF fault = [op |-> "write", at |-> i]
                 THEN [alloc EXCEPT !.err = "write"]
            ELSE IF p.err THEN [wrote EXCEPT !.err = "pack"]
            ELSE invokeLoop(i + 1, ps, [wrote EXCEPT !.stack = Append(@, p.word)],
                            fault, r)

\* what an exported guest function does with its arguments: it returns
\* nothing, it returns the values it wrote with mdk, or it returns a word of
\* its own making; it may free its arguments before it returns
GuestReturns(vals) == [kind |-> "return", vals |-> vals, word |-> Zero64]
GuestForges(w) == [kind |-> "forge", vals |-> <<>>, word |-> w]
GuestVoid == [kind |-> "void", vals |-> <<>>, word |-> Zero64]

\* a word tagged String where a MultiPackedData is expected
NotPackWord == PackUI64(ValueTypeString, U32(SlotCap), U32(8)).word
\* a MultiPackedData whose array lies past the end of linear memory
OutOfRangePack == PackUI64(ValueTypePack, <<0, 0, 1, 0>>, U32(8)).word

\* the entries a guest puts in the array it returns: values it allocates,
\* or words that no read can follow
GuestResultLists ==
    {<<>>, <<U32Seven>>, <<BytesHi, StrHost>>, <<ByteOne, U32Seven, U64Year>>,
     <<[raw |-> BadTagWord]>>, <<U32Seven, [raw |-> OutOfRangeWord]>>}

GuestPrograms ==
    {GuestVoid, GuestForges(NotPackWord), GuestForges(OutOfRangePack)} \cup
    {GuestReturns(v) : v \in GuestResultLists}

RECURSIVE guestWritePacks(_, _)
\* the guest's Write<T>Pack of each value, left to right
guestWritePacks(vals, acc) ==
    IF vals = <<>> \/ acc.err THEN acc
    ELSE LET v == Head(vals)
             a == Alloc(acc.heap, v)
         IN guestWritePacks(Tail(vals),
              IF "raw" \in DOMAIN v
              THEN [acc EXCEPT !.pds = Append(@, v.raw)]
              ELSE [err |-> a.err, heap |-> a.heap, pds |-> Append(acc.pds, a.word)])

\* mdk.WriteMultiPack(params...) in the guest: 0 for no params, else the
\* words written into a new block and that block's Pack word
guestWriteMultiPack(h, pds) ==
    LET size == 8 * Len(pds)
        m == Malloc(h, size)
    IN IF pds = <<>> THEN [err |-> FALSE, heap |-> h, word |-> Zero64]
       ELSE IF m.err THEN [err |-> TRUE, heap |-> h, word |-> Zero64]
       ELSE [err |-> FALSE,
             heap |-> MemWrite(m.heap, m.offset, Uint64ArrayToBytes(pds)),
             word |-> WriteMultiPack(U32(m.offset), U32(size)).word]

RECURSIVE freeWords(_, _)
\* mdk.Free(args...) in the guest
freeWords(h, stk) ==
    IF stk = <<>> THEN h
    ELSE freeWords(GuestFree(h, U32Val(UnpackUI64(Head(stk)).offset)), Tail(stk))

\* gf.call(stack...): CallWithStack on a stack of len(params)+1 words; the
\* word that comes back is stack[0], which a function without results
\* leaves as it was
call(h, stk, prog, frees, fault) ==
    LET ws == guestWritePacks(prog.vals, [err |-> FALSE, heap |-> h, pds |-> <<>>])
        mp == guestWriteMultiPack(ws.heap, ws.pds)
        h1 == IF prog.kind = "return" THEN mp.heap ELSE h
        word == CASE prog.kind = "return" -> mp.word
                  [] prog.kind = "forge" -> prog.word
                  [] OTHER -> Append(stk, Zero64)[1]
    IN IF fault.op = "call" \/ (prog.kind = "return" /\ (ws.err \/ mp.err))
       THEN [err |-> TRUE, heap |-> h, word |-> Zero64]
       ELSE [err |-> FALSE, heap |-> IF frees THEN freeWords(h1, stk) ELSE h1,
             word |-> word]

\* wazeroGuestFunction.Invoke(params...) up to its return statement: the
\* word the call gave and the error, with the guest memory, the tracker and
\* what was done
Invoke(ps, h, am, prog, frees, fault, r) ==
    LET st0 == [heap |-> h, am |-> am, stack |-> <<>>, conv |-> <<>>, ev |-> <<>>,
                err |-> "none", called |-> 0, word |-> Zero64, atCall |-> h,
                freeErr |-> 0, freeFailed |-> {}]
        st1 == invokeLoop(1, ps, st0, fault, r)
        c == call(st1.heap, st1.stack, prog, frees, fault)
    IN IF st1.err # "none" THEN st1
       ELSE IF c.err
       THEN [st1 EXCEPT !.called = 1, !.err = "call", !.atCall = st1.heap,
                        !.ev = Append(@, Ev("call", 0))]
       ELSE [st1 EXCEPT !.called = 1, !.heap = c.heap, !.word = c.word,
                        !.atCall = st1.heap,
                        !.ev = Append(@, Ev("call", 0))]

RECURSIVE guestFunctionCleanup_KeepOnFreeError(_, _, _)
\* the cleanup that leaves in the tracker the keys whose Free failed
guestFunctionCleanup_KeepOnFreeError(st, order, failKeys) ==
    IF order = <<>> THEN st
    ELSE LET k == Head(order)
         IN guestFunctionCleanup_KeepOnFreeError(
              [st EXCEPT !.heap = IF k \in failKeys THEN @ ELSE GuestFree(@, k),
                         !.am = IF k \in failKeys THEN @ ELSE Delete(@, k),
                         !.ev = Append(@, Ev("free", k)),
                         !.freeFailed = IF k \in failKeys THEN @ \cup {k} ELSE @,
                         !.freeErr = IF @ = 0 /\ k \in failKeys THEN k ELSE @],
              Tail(order), failKeys)

RECURSIVE guestFunctionCleanup(_, _, _)
\* wazeroGuestFunction.cleanup, deferred by the "tracked" Invoke: Range over
\* the tracker in the order given, Free and Delete of every key; the Free
\* of the keys in failKeys comes back with an error, and freeErr is the
\* firstErr returned, as the key whose Free gave it (0 for nil)
guestFunctionCleanup(st, order, failKeys) ==
    IF order = <<>> THEN st
    ELSE LET k == Head(order)
         IN guestFunctionCleanup(
              [st EXCEPT !.heap = IF k \in failKeys THEN @ ELSE GuestFree(@, k),
                         !.am = Delete(@, k),
                         !.ev = Append(@, Ev("free", k)),
                         !.freeFailed = IF k \in failKeys THEN @ \cup {k} ELSE @,
                         !.freeErr = IF @ = 0 /\ k \in failKeys THEN k ELSE @],
              Tail(order), failKeys)

\* ------------------------------------------------------------------------
\* Reading what a guest function returned: GuestFunctionResult
\* ------------------------------------------------------------------------

\* ReadResults that follows the word of the handle whatever its tag
ReadResults_NoTagCheck(h, packedData) ==
    LET u == UnpackUI64(packedData)
        failed(why) == [err |-> why, results |-> <<>>, ev |-> <<>>]
        bytes == MemRead(h, U32Val(u.offset), U32Val(u.size))
        packedDatas == BytesToUint64Array(bytes)
        count == U32Val(u.size) \div 8
        rd == [i \in DOMAIN packedDatas |-> Read(h, packedDatas[i])]
    IN IF packedData = Zero64 THEN failed("empty")
       ELSE IF ~InRange(u.offset, u.size) THEN failed("readBytes")
       ELSE [err |-> "none",
             results |-> [i \in 1..count |->
                             IF i <= Len(packedDatas) /\ ~rd[i].err
                             THEN rd[i].data ELSE Nil],
             ev |-> <<Ev("readBytes", U32Val(u.offset))>> \o
                    [i \in DOMAIN packedDatas |->
                        Ev("read", U32Val(UnpackUI64(packedDatas[i]).offset))]]

\* GuestFunctionResult.ReadResults(): (Results, error), with the spans of
\* guest memory it read
ReadResults(h, packedData) ==
    LET u == UnpackUI64(packedData)
        failed(why) == [err |-> why, results |-> <<>>, ev |-> <<>>]
        bytes == MemRead(h, U32Val(u.offset), U32Val(u.size))
        packedDatas == BytesToUint64Array(bytes)
        count == U32Val(u.size) \div 8
        rd == [i \in DOMAIN packedDatas |-> Read(h, packedDatas[i])]
    IN IF packedData = Zero64 THEN failed("empty")
       ELSE IF u.dataType # ValueTypePack THEN failed("notPack")
       ELSE IF ~InRange(u.offset, u.size) THEN failed("readBytes")
       ELSE [err |-> "none",
             results |-> [i \in 1..count |->
                             IF i <= Len(packedDatas) /\ ~rd[i].err
                             THEN rd[i].data ELSE Nil],
             ev |-> <<Ev("readBytes", U32Val(u.offset))>> \o
                    [i \in DOMAIN packedDatas |->
                        Ev("read", U32Val(UnpackUI64(packedDatas[i]).offset))]]

\* GuestFunctionResult.Free(): an empty body
Free(h) == h

\* ------------------------------------------------------------------------
\* A host program that invokes guest functions and reads their results
\* ------------------------------------------------------------------------

NoRead == [err |-> "none", results |-> <<>>, ev |-> <<>>]

InitGuest ==
    /\ rev = "cleanup"
    /\ hostRev = "types"
    /\ hfParams = <<>>
    /\ hfResults = <<>>
    /\ heap = EmptyHeap
    /\ allocationMap = NewAllocationMap
    /\ stack = <<>>
    /\ stackIn = <<>>
    /\ pc = "idle"
    /\ params = <<>>
    /\ results = NilResults
    /\ returnOffsets = {}
    /\ panicking = FALSE
    /\ events = <<>>
    /\ guestView = NoView
    /\ calls = 0
    /\ codec = NoCodec
    /\ packed = NoPacked
    /\ amRev = "part_021"
    /\ trk = NoTrk
    /\ gor = IdleGoroutines
    /\ reg = NoRegistry
    /\ lg = NoLog
    /\ \E r \in InvokeRevisions, ps \in InvokeParams, prog \in GuestPrograms,
          frees \in BOOLEAN, fault \in InvokeFaults(3) :
         /\ fault.at <= Len(ps)
         /\ fault.op \in {"malloc", "write", "call"} => prog = GuestVoid /\ ~frees
         /\ gf = [NoInvoke EXCEPT !.pc = "idle", !.rev = r, !.params = ps,
                                  !.prog = prog, !.guestFrees = frees,
                                  !.fault = fault]

guestFrame == <<rev, hostRev, hfParams, hfResults, allocationMap, stack, stackIn,
                pc, params, results, returnOffsets, panicking, guestView, calls,
                codec, packed, amRev, trk, gor, reg, lg>>

\* the ways one Invoke of guest function g can end on guest memory h: in the
\* "tracked" revision the deferred cleanup ranges over the tracker in any
\* order and the Free of any of the keys fails
InvokeOutcomes(g, h) ==
    LET st == Invoke(g.params, h, NewAllocationMap, g.prog, g.guestFrees,
                     g.fault, g.rev)
        keys == IF g.rev = "tracked" THEN DOMAIN st.am.Map ELSE {}
    IN {guestFunctionCleanup(st, order, failKeys) :
          order \in Orders(keys), failKeys \in SUBSET keys}

\* what the host program holds after the Invoke: the error or, in the
\* "handle" revision, a new result handle nobody has read
InvokeReturn(g, h, fin) ==
    [g EXCEPT !.pc = "invoked", !.n = @ + 1, !.conv = fin.conv,
              !.stack = fin.stack, !.called = fin.called, !.am = fin.am,
              !.err = fin.err, !.word = fin.word,
              !.hasHandle = g.rev = "handle" /\ fin.err = "none",
              !.atCall = fin.atCall, !.before = h,
              !.freeErr = fin.freeErr, !.freeFailed = fin.freeFailed,
              !.reads = 0, !.frees = 0, !.rr = NoRead, !.first = NoRead]

\* module.GuestFunction(ctx, name).Invoke(params...) of the host program,
\* which passes the same params to the same exported function every time: a
\* new wazeroGuestFunction with a tracker of its own, the loop over the
\* params, the call of the exported function and, in the "tracked"
\* revision, the deferred cleanup
GuestFunctionInvoke ==
    /\ gf.pc \in {"idle", "invoked"}
    /\ gf.n < MaxInvokes
    /\ \E fin \in InvokeOutcomes(gf, heap) :
         /\ heap' = fin.heap
         /\ events' = fin.ev
         /\ gf' = InvokeReturn(gf, heap, fin)
    /\ UNCHANGED guestFrame

\* res.ReadResults() on the handle the last Invoke returned
HandleReadResults ==
    /\ gf.pc = "invoked"
    /\ gf.hasHandle
    /\ gf.reads < MaxReads
    /\ LET r == ReadResults(heap, gf.word)
       IN /\ gf' = [gf EXCEPT !.reads = @ + 1, !.rr = r,
                               !.first = IF gf.reads = 0 THEN r ELSE @]
          /\ events' = events \o r.ev
    /\ UNCHANGED <<guestFrame, heap>>

\* res.Free() on the handle the last Invoke returned
HandleFree ==
    /\ gf.pc = "invoked"
    /\ gf.hasHandle
    /\ gf.frees = 0
    /\ heap' = Free(heap)
    /\ gf' = [gf EXCEPT !.frees = 1]
    /\ UNCHANGED <<guestFrame, events>>

NextGuest ==
    \/ GuestFunctionInvoke
    \/ HandleReadResults
    \/ HandleFree

SpecGuest == InitGuest /\ [][NextGuest]_vars

\* ------------------------------------------------------------------------
\* wazeroRuntime.NewModule: host-function registrations and their trackers
\* ------------------------------------------------------------------------

\* modules one program creates from the same ModuleConfig
MaxModules == 2
\* tracker operations the registrations perform
MaxRegOps == 3

\* ModuleConfig.HostFunctions: the names of the user-defined host functions
HostFunctionNames == <<"A", "B">>

\* offsets and sizes the bridge hands to a tracker
RegOffsets == {24, 48}
RegSizes == {2, 8}

\* every registration of a module refers to the tracker of the first module
instantiateHostFunctions_ConfigTracker(rg, m) ==
    LET n == Len(HostFunctionNames)
    IN [rg EXCEPT
          !.objs = @ \o [i \in 1..(n + 1) |-> NewAllocationMap],
          !.regs = @ \o [i \in 1..(n + 1) |->
                           [mod |-> m,
                            name |-> IF i <= n THEN HostFunctionNames[i] ELSE "log",
                            runs |-> IF i <= n THEN HostFunctionNames[i] ELSE "log",
                            am |-> i]],
          !.mods = m]

\* instantiateHostFunctions(ctx, wazeroModule, moduleConfig): for each entry
\* of moduleConfig.HostFunctions a copy hf with a new allocationMap, whose
\* address the exported callback keeps; then newLog(), a new HostFunction
\* with an allocationMap of its own. objs are the AllocationMap objects
\* allocated so far (the index is the pointer), regs the exported callbacks:
\* the name each is exported under, the HostFunction its pointer designates
\* when it runs (runs) and that HostFunction's allocationMap (am)
instantiateHostFunctions(rg, m) ==
    LET n == Len(HostFunctionNames)
    IN [rg EXCEPT
          !.objs = @ \o [i \in 1..(n + 1) |-> NewAllocationMap],
          !.regs = @ \o [i \in 1..(n + 1) |->
                           [mod |-> m,
                            name |-> IF i <= n THEN HostFunctionNames[i] ELSE "log",
                            runs |-> IF i <= n THEN HostFunctionNames[i] ELSE "log",
                            am |-> Len(rg.objs) + i]],
          !.mods = m]

\* instantiateHostFunctions of the revision that ranges with
\* "for _, hf := range moduleConfig.HostFunctions" and hands &hf to every
\* callback: under go 1.21 the loop has one variable hf, so every callback
\* keeps the same pointer, and when a callback runs hf holds the last entry
\* of the list with the allocationMap the last iteration made. This revision
\* exports no log function
instantiateHostFunctionsLoopVar(rg, m) ==
    LET n == Len(HostFunctionNames)
    IN [rg EXCEPT
          !.objs = @ \o [i \in 1..n |-> NewAllocationMap],
          !.regs = @ \o [i \in 1..n |->
                           [mod |-> m,
                            name |-> HostFunctionNames[i],
                            runs |-> HostFunctionNames[n],
                            am |-> Len(rg.objs) + n]],
          !.mods = m]

\* the revisions of instantiateHostFunctions
RegistryRevisions == {"runtime_wazero", "part_001"}

InitRegistry ==
    /\ rev = "cleanup"
    /\ hostRev = "types"
    /\ hfParams = <<>>
    /\ hfResults = <<>>
    /\ heap = EmptyHeap
    /\ allocationMap = NewAllocationMap
    /\ stack = <<>>
    /\ stackIn = <<>>
    /\ pc = "idle"
    /\ params = <<>>
    /\ results = NilResults
    /\ returnOffsets = {}
    /\ panicking = FALSE
    /\ events = <<>>
    /\ guestView = NoView
    /\ calls = 0
    /\ codec = NoCodec
    /\ packed = NoPacked
    /\ amRev = "part_021"
    /\ trk = NoTrk
    /\ gor = IdleGoroutines
    /\ gf = NoInvoke
    /\ lg = NoLog
    /\ \E r \in RegistryRevisions : reg = [NoRegistry EXCEPT !.rev = r]

registryFrame == <<rev, hostRev, hfParams, hfResults, heap, allocationMap, stack,
                   stackIn, pc, params, results, returnOffsets, panicking,
                   events, guestView, calls, codec, packed, amRev, trk, gor, gf,
                   lg>>

\* NewModule(ctx, moduleConfig) with the one ModuleConfig of the program, on a
\* runtime where its namespace is not instantiated yet
NewModule ==
    /\ reg.mods < MaxModules
    /\ reg' = IF reg.rev = "part_001"
              THEN instantiateHostFunctionsLoopVar(reg, reg.mods + 1)
              ELSE instantiateHostFunctions(reg, reg.mods + 1)
    /\ UNCHANGED registryFrame

\* hf.allocationMap.Store(offset, offsetSize) inside an invocation of the
\* callback exported for registration r
HostFunctionStore ==
    /\ reg.ops < MaxRegOps
    /\ \E r \in DOMAIN reg.regs, offset \in RegOffsets, size \in RegSizes :
         reg' = [reg EXCEPT
                   !.objs[reg.regs[r].am] = Store(@, offset, size),
                   !.ops = @ + 1,
                   !.last = [op |-> "Store", r |-> r, before |-> reg.objs,
                             ran |-> reg.regs[r].runs]]
    /\ UNCHANGED registryFrame

\* hf.allocationMap.Delete(offset) inside the cleanup of an invocation of
\* the callback exported for registration r
HostFunctionDelete ==
    /\ reg.ops < MaxRegOps
    /\ \E r \in DOMAIN reg.regs, offset \in RegOffsets :
         reg' = [reg EXCEPT
                   !.objs[reg.regs[r].am] = Delete(@, offset),
                   !.ops = @ + 1,
                   !.last = [op |-> "Delete", r |-> r, before |-> reg.objs,
                             ran |-> reg.regs[r].runs]]
    /\ UNCHANGED registryFrame

NextRegistry ==
    \/ NewModule
    \/ HostFunctionStore
    \/ HostFunctionDelete

SpecRegistry == InitRegistry /\ [][NextRegistry]_vars

\* ------------------------------------------------------------------------
\* The built-in host function "log" and mdk.LogDebug .. mdk.LogError
\* ------------------------------------------------------------------------

\* the revisions of hostFunctions.newLog: the one whose callback gets the
\* packed words, and the one whose callback gets the decoded Params
LogRevisions == {"host_functions", "part_027"}

\* the formatted messages a guest logs
LogMessages ==
    {StrHost, StrWasify,
     [t |-> ValueTypeString, b |-> <<2, 105>>],
     [t |-> ValueTypeString, b |-> <<4>>]}

\* the lvl byte handed to _slog: 1..4 from LogDebug .. LogError
LogLevels == 0..5

\* mdk._slog(format, lvl, a...): _log(Arg(msg), Arg(lvl))
slog(h, msg, lvl) ==
    LET a1 == Alloc(h, msg)
        a2 == Alloc(a1.heap, [t |-> ValueTypeByte, b |-> <<lvl>>])
    IN [err |-> a1.err \/ a2.err, heap |-> a2.heap, stack |-> <<a1.word, a2.word>>]

\* wazeroMemory.ReadStringPack(pd): the size bytes at the offset of the word
ReadStringPack(h, pd) ==
    LET u == UnpackUI64(pd)
    IN IF ~InRange(u.offset, u.size) THEN [err |-> TRUE, b |-> <<>>]
       ELSE [err |-> FALSE, b |-> MemRead(h, U32Val(u.offset), U32Val(u.size))]

\* wazeroMemory.ReadBytePack(pd): the byte at the offset of the word,
\* whatever its tag
ReadBytePack(h, pd) ==
    LET u == UnpackUI64(pd)
    IN IF ~InRange(u.offset, U32(1)) THEN [err |-> TRUE, v |-> 0]
       ELSE [err |-> FALSE, v |-> ByteAt(h, U32Val(u.offset))]

\* the switch over the severity: the method of the host logger that is called
LogMethod(severity) ==
    CASE severity = 1 -> "Debug"
      [] severity = 2 -> "Info"
      [] severity = 3 -> "Warn"
      [] severity = 4 -> "Error"
      [] OTHER -> "none"

\* what the switch writes to the host logger
logSwitch(severity, msg) ==
    IF LogMethod(severity) = "none" THEN <<>>
    ELSE <<[level |-> LogMethod(severity), msg |-> msg]>>

\* the Callback of newLog in host_functions.go: the message from
\* ReadStringPack(params[0]), the level from ReadBytePack(params[0])
newLogPacked(h, pds) ==
    LET msg == ReadStringPack(h, pds[1])
        lvl == ReadBytePack(h, pds[1])
    IN IF msg.err \/ lvl.err THEN [panicked |-> TRUE, out |-> <<>>]
       ELSE [panicked |-> FALSE, out |-> logSwitch(lvl.v, msg.b)]

\* the Callback of newLog in part_027: params[0].Value.(string) and
\* params[1].Value.(uint8); a failed type assertion panics
newLogParams(ps) ==
    IF Len(ps) < 2 \/ ps[1].Value.t # ValueTypeString
                   \/ ps[2].Value.t # ValueTypeByte
    THEN [panicked |-> TRUE, out |-> <<>>]
    ELSE [panicked |-> FALSE, out |-> logSwitch(ps[2].Value.b[1], ps[1].Value.b)]

\* the bridge in front of the callback: the words themselves, or the Params
\* convertParamsToStruct reads for the declared [Bytes, Bytes]
newLog(r, h, stk) ==
    IF r = "host_functions"
    THEN newLogPacked(h, preHostFunctionCallback(
                            <<ValueTypeBytes, ValueTypeBytes>>, stk).pds)
    ELSE newLogParams(convertParamsToStruct(
                        <<ValueTypeBytes, ValueTypeBytes>>, stk, h,
                        NewAllocationMap).params)

InitLog ==
    /\ rev = "cleanup"
    /\ hostRev = "types"
    /\ hfParams = <<>>
    /\ hfResults = <<>>
    /\ heap = EmptyHeap
    /\ allocationMap = NewAllocationMap
    /\ stack = <<>>
    /\ stackIn = <<>>
    /\ pc = "idle"
    /\ params = <<>>
    /\ results = NilResults
    /\ returnOffsets = {}
    /\ panicking = FALSE
    /\ events = <<>>
    /\ guestView = NoView
    /\ calls = 0
    /\ codec = NoCodec
    /\ packed = NoPacked
    /\ amRev = "part_021"
    /\ trk = NoTrk
    /\ gor = IdleGoroutines
    /\ gf = NoInvoke
    /\ reg = NoRegistry
    /\ \E r \in LogRevisions, msg \in LogMessages, lvl \in LogLevels :
         lg = [NoLog EXCEPT !.pc = "idle", !.rev = r, !.msg = msg, !.lvl = lvl]

logFrame == <<rev, hostRev, hfParams, hfResults, allocationMap, stack, stackIn,
              pc, params, results, returnOffsets, panicking, events,
              guestView, calls, codec, packed, amRev, trk, gor, gf, reg>>

\* the guest logs its message: _slog builds the two arguments and calls the
\* imported function log
GuestLog ==
    /\ lg.pc = "idle"
    /\ LET s == slog(heap, lg.msg, lg.lvl)
       IN /\ ~s.err
          /\ heap' = s.heap
          /\ lg' = [lg EXCEPT !.pc = "called", !.params = s.stack]
    /\ UNCHANGED logFrame

\* the host runs the Callback of log on the stack of the call
HostLog ==
    /\ lg.pc = "called"
    /\ LET c == newLog(lg.rev, heap, lg.params)
       IN lg' = [lg EXCEPT !.pc = "logged", !.out = c.out,
                           !.panicked = c.panicked]
    /\ UNCHANGED <<logFrame, heap>>

NextLog ==
    \/ GuestLog
    \/ HostLog

SpecLog == InitLog /\ [][NextLog]_vars

\* C1: for every tag, every offset and every size below 2^24, PackUI64
\* succeeds and UnpackUI64 of its word gives back the same tag, offset and size
C1_RoundTrip ==
    /\ (codec.op = "PackUI64" /\ codec.size[4] = 0) => ~codec.err
    /\ codec.op = "UnpackUI64" =>
         /\ codec.size[4] = 0
         /\ codec.un.dataType = codec.dataType
         /\ codec.un.offset = codec.offset
         /\ codec.un.size = codec.size

\* C1 witness: the largest tag, offset and size went through pack and unpack
C1_Witness ==
    /\ codec.op = "UnpackUI64"
    /\ codec.dataType = 255
    /\ codec.offset = <<255, 255, 255, 255>>
    /\ codec.size = <<255, 255, 255, 0>>

\* C2: PackUI64 returns an error and the zero word exactly when size >= 2^24;
\* size 2^24 - 1 is packed
C2_SizeOverflowRejected ==
    codec.op = "PackUI64" =>
        /\ codec.err <=> (codec.size[4] >= 1)
        /\ codec.err => codec.word = Zero64
        /\ codec.size = <<255, 255, 255, 0>> => ~codec.err

\* C2 witness: PackUI64 was handed size 2^24 and refused it
C2_Witness ==
    /\ codec.op = "PackUI64"
    /\ codec.size = <<0, 0, 0, 1>>
    /\ codec.err

\* C3: every pack operation, the guest's Write...Pack functions included,
\* fails for size >= 2^24 and never returns a word carrying the low 24 bits
\* of that size
C3_GuestPackRejectsOverflow ==
    (codec.op \in GuestPackOps \cup {"PackUI64"} /\ codec.size[4] >= 1) =>
        /\ codec.err
        /\ codec.word = Zero64

\* ------------------------------------------------------------------------
\* The host bridge: what the claims say about one invocation
\* ------------------------------------------------------------------------

\* the invocation in flight has ended (returned to the guest or aborted)
Ended == pc = "idle" /\ calls > 0

Before(i, kind) == \E j \in 1..(i - 1) : events[j].e = kind

FreeKinds == {"cleanup", "freeParams", "freeResults", "free"}

\* how many times the bridge's cleanup ran: hf.cleanup, or the pair of
\* deferred freeResults and freeParams
CleanupRanOnce ==
    IF rev = "deferred"
    THEN /\ Count([i \in DOMAIN events |-> events[i].e], "freeParams") = 1
         /\ Count([i \in DOMAIN events |-> events[i].e], "freeResults") = 1
    ELSE Count([i \in DOMAIN events |-> events[i].e], "cleanup") = 1

\* the number of results the callback returned
NumResults == IF results.kind = "list" THEN Len(results.vals) ELSE 0

\* C4: after any invocation, ended well or not, the tracker of the
\* registration has no entries and its total size is 0
C4_TrackerEmptyAfterInvocation ==
    Ended => allocationMap.Map = <<>> /\ TotalSize(allocationMap) = 0

\* C5: in every invocation the cleanup step runs exactly once, also when
\* decoding, the callback or encoding fails
C5_CleanupExactlyOnce ==
    Ended => CleanupRanOnce

\* C6: every offset the bridge registered with the tracker while decoding or
\* encoding is passed to the engine's free exactly once before the invocation
\* ends, also when encoding fails after some results were registered
C6_RegisteredFreedOnce ==
    Ended =>
        \A i \in DOMAIN events :
            events[i].e = "store" =>
                Count(OffsetsOf(events, "free"), events[i].off) = 1

\* C7: the guest that reads the MultiPackedWord of the return slot gets
\* exactly what the callback returned and reads no memory the bridge freed
C7_GuestReadsResultsNoUseAfterFree ==
    (Ended /\ guestView.status = "read") =>
        /\ ~guestView.uaf
        /\ guestView.vals = results.vals

\* C8: the phases of one invocation come in the order decode, callback,
\* encode, cleanup: nothing is freed before the callback is over and the
\* encoding has finished, and no result is allocated before the callback
C8_PhaseOrder ==
    \A i \in DOMAIN events :
        /\ events[i].e = "callback" => Before(i, "decode")
        /\ events[i].e = "encode" => Before(i, "callback")
        /\ events[i].e = "malloc" => Before(i, "callback")
        /\ events[i].e \in FreeKinds =>
             /\ Before(i, "callback")
             /\ results.kind # "panic" => Before(i, "encoded")
        /\ events[i].e \in {"decode", "callback", "encode"} =>
             \A j \in 1..(i - 1) : events[j].e \notin FreeKinds

\* C8 witness: an invocation that decoded two parameters, ran the callback,
\* allocated results and freed parameters and results has returned
C8_Witness ==
    /\ pc = "returned"
    /\ Len(params) = 2
    /\ results.kind = "list"
    /\ returnOffsets # {}
    /\ Cardinality({i \in DOMAIN events : events[i].e = "free"}) >= 4

\* the packed words the guest supplied: none to a function registered
\* without parameters, whose one slot is the result slot
Supplied == IF hfParams = <<>> THEN 0 ELSE Len(stackIn)

\* C9: when the number of packed words on the stack differs from the number
\* of declared parameters the bridge fails with a count-mismatch error and
\* does not run the callback
C9_ParamCountMismatchStopsCall ==
    (Has(events, "decode") /\ Supplied # Len(hfParams)) =>
        /\ Has(events, "paramCount")
        /\ ~Has(events, "callback")

FirstMismatch ==
    IF \E i \in DOMAIN results.vals : results.vals[i].t # hfResults[i]
    THEN CHOOSE i \in DOMAIN results.vals :
            /\ results.vals[i].t # hfResults[i]
            /\ \A j \in 1..(i - 1) : results.vals[j].t = hfResults[j]
    ELSE 0

\* blocks the bridge obtained from Malloc in this invocation
MallocCount ==
    Cardinality({i \in DOMAIN events : events[i].e = "malloc" /\ events[i].off # 0})

\* a Malloc of this invocation came back with an error
MallocFailed == \E i \in DOMAIN events : events[i].e = "malloc" /\ events[i].off = 0

\* C11: when the i-th result is the first whose native type does not
\* correspond to the i-th declared type, encoding fails with the type error
\* (the conversion error when the native type is none the bridge supports),
\* nothing is allocated for that result and the return slot gets no
\* MultiPackedWord
C11_TypeMismatchRejected ==
    (/\ Has(events, "encoded")
     /\ results.kind = "list"
     /\ Len(results.vals) = Len(hfResults)
     /\ FirstMismatch # 0
     /\ ~MallocFailed) =>
        /\ IF results.vals[FirstMismatch].t \in SupportedTags
           THEN Has(events, "resultType")
           ELSE Has(events, "resultConvert")
        /\ MallocCount = FirstMismatch - 1
        /\ ~Has(events, "slot")
        /\ stack = stackIn
        /\ returnOffsets = {}

\* C11 witness: [Bytes, I32] declared, the callback returned two byte
\* slices; the first was allocated, the second was refused for its type
C11_Witness ==
    /\ Has(events, "encoded")
    /\ results = ResultList(<<BytesOk, BytesOk>>)
    /\ Len(hfResults) = 2
    /\ FirstMismatch = 2
    /\ Has(events, "resultType")
    /\ MallocCount = 1

\* the name of the constant the guest side gives the tag of a Go value
NativeName(v) ==
    IF \E n \in DOMAIN GuestValueType : GuestValueType[n] = v.t
    THEN CHOOSE n \in DOMAIN GuestValueType : GuestValueType[n] = v.t
    ELSE "none"

\* the name of the host constant the i-th declared result type was written as
DeclaredName(i) ==
    CHOOSE n \in DOMAIN HostValueType(hostRev) :
        HostValueType(hostRev)[n] = hfResults[i]

\* C12: the host and the guest give every value type the same tag, so a
\* result list in which every native type is the one its declared host
\* ValueType names passes the bridge's type check
C12_DeclaredNativeTypePasses ==
    (/\ Has(events, "encoded")
     /\ results.kind = "list"
     /\ results.vals # <<>>
     /\ Len(results.vals) = Len(hfResults)
     /\ \A i \in DOMAIN results.vals : NativeName(results.vals[i]) = DeclaredName(i)) =>
        /\ \A i \in DOMAIN results.vals :
              GuestValueType[NativeName(results.vals[i])] = hfResults[i]
        /\ ~Has(events, "resultType")

\* ------------------------------------------------------------------------
\* The allocation tracker: what the claims say
\* ------------------------------------------------------------------------

\* the entries under keys other than k are what they were before
OthersUnchanged(k) ==
    \A j \in (DOMAIN trk.before.Map \cup DOMAIN allocationMap.Map) \ {k} :
        /\ Load(allocationMap, j) = Load(trk.before, j)
        /\ LoadValue(allocationMap, j) = LoadValue(trk.before, j)

\* C13: Store(k, s) on an absent key makes Load(k) return (s, present) and
\* the total grow by s; Delete(k) on a present key makes Load(k) report
\* absent and the total shrink by the size stored for k; entries under other
\* keys are unchanged
C13_StoreLoadDelete ==
    /\ (trk.op = "Store" /\ ~Load(trk.before, trk.key)) =>
          /\ Load(allocationMap, trk.key)
          /\ LoadValue(allocationMap, trk.key) = trk.size
          /\ TotalSize(allocationMap) = TotalSize(trk.before) + trk.size
          /\ OthersUnchanged(trk.key)
    /\ (trk.op = "Delete" /\ Load(trk.before, trk.key)) =>
          /\ ~trk.panicked
          /\ ~Load(allocationMap, trk.key)
          /\ LoadValue(allocationMap, trk.key) = 0
          /\ TotalSize(allocationMap) =
                TotalSize(trk.before) - LoadValue(trk.before, trk.key)
          /\ OthersUnchanged(trk.key)
    /\ trk.op = "Load" =>
          /\ trk.ld.ok = (trk.key \in DOMAIN allocationMap.Map)
          /\ trk.ld.ok => trk.ld.v = allocationMap.Map[trk.key]

\* C13 witness: Store(1, 100); Store(2, 200); Delete(1) left the total 200
C13_Witness ==
    /\ trk.op = "Delete"
    /\ trk.key = 1
    /\ trk.before.Map = (1 :> 100) @@ (2 :> 200)
    /\ TotalSize(trk.before) = 300
    /\ TotalSize(allocationMap) = 200
    /\ ~Load(allocationMap, 1)

\* C14: Delete of a key that is absent (never stored, or deleted before)
\* does not fail, removes nothing and leaves the total size unchanged
C14_DeleteAbsentIsNoOp ==
    (trk.op = "Delete" /\ ~Load(trk.before, trk.key)) =>
        /\ ~trk.panicked
        /\ allocationMap = trk.before

\* the sum of the sizes of the entries in the map
RECURSIVE SumOver(_, _)
SumOver(S, f) ==
    IF S = {} THEN 0
    ELSE LET x == CHOOSE y \in S : TRUE IN f[x] + SumOver(S \ {x}, f)

\* no goroutine is in the middle of Store or Delete
Quiescent == \A g \in Goroutines : gor[g].pc \in {"idle", "deleteMap", "done"}

\* C15: when two invocations Store and Delete in the shared tracker
\* concurrently, no update is lost under any interleaving: between operations
\* the total size is the sum of the sizes in the map, and it is 0 once both
\* invocations have cleaned up
C15_NoLostUpdate ==
    (trk.op = "none" /\ Quiescent) =>
        /\ TotalSize(allocationMap) =
              SumOver(DOMAIN allocationMap.Map, allocationMap.Map)
        /\ (\A g \in Goroutines : gor[g].pc = "done") =>
              /\ allocationMap.Map = <<>>
              /\ TotalSize(allocationMap) = 0

\* ------------------------------------------------------------------------
\* Results in the return slot, arguments, and the host's Write...Pack
\* ------------------------------------------------------------------------

\* writeResultsToMemory has just succeeded and nothing was freed yet
EncodedOk == Has(events, "slot") /\ pc \in {"cleanup", "freeResults"}

\* the bridge obtained the block at offset a from Malloc in this invocation
\* and it is still allocated
FreshBlock(a) ==
    /\ \E i \in DOMAIN events : events[i] = Ev("malloc", a)
    /\ SlotAt(a) # 0
    /\ heap[SlotAt(a)].live
    /\ \A j \in DOMAIN params : params[j].Offset # a

\* C16: after n results were encoded the return slot holds one word with tag
\* Pack and size 8*n whose offset is a freshly allocated block, registered
\* with the tracker, that holds n packed words in result order; the i-th
\* carries the i-th declared tag and the offset and size of the memory that
\* holds the i-th value
C16_ReturnSlotHoldsResults ==
    EncodedOk =>
        LET u == UnpackUI64(stack[1])
            n == Len(results.vals)
            off == U32Val(u.offset)
            arr == BytesToUint64Array(MemRead(heap, off, 8 * n))
        IN /\ u.dataType = ValueTypePack
           /\ U32Val(u.size) = 8 * n
           /\ FreshBlock(off)
           /\ Load(allocationMap, off)
           /\ LoadValue(allocationMap, off) = 8 * n
           /\ Len(arr) = n
           /\ \A i \in 1..n :
                LET w == UnpackUI64(arr[i])
                IN /\ w.dataType = hfResults[i]
                   /\ U32Val(w.size) =
                        GetOffsetSizeAndDataTypeByConversion(results.vals[i]).offsetSize
                   /\ FreshBlock(U32Val(w.offset))
                   /\ w.offset # u.offset
                   /\ \A j \in 1..n : j # i => UnpackUI64(arr[j]).offset # w.offset
                   /\ MemRead(heap, U32Val(w.offset), Len(results.vals[i].b))
                        = results.vals[i].b

\* C16 witness: two results were encoded and the slot holds their word
C16_Witness ==
    /\ EncodedOk
    /\ results = ResultList(<<BytesOk, U32Seven>>)
    /\ Len(params) = 2
    /\ UnpackUI64(stack[1]).size = U32(16)

\* C17: with an empty declared result list the bridge allocates nothing and
\* writes nothing for results and leaves the stack as it was, whatever the
\* callback returned, and goes on to cleanup
C17_EmptyDeclaredResultsSkip ==
    (hfResults = <<>> /\ (Has(events, "encoded") \/ Has(events, "post"))) =>
        /\ MallocCount = 0
        /\ ~Has(events, "write")
        /\ stack = stackIn
        /\ pc # "panicked"

\* C18: the blocks the guest allocated for the arguments of a call (mdk.Arg)
\* have been freed by the bridge when the host function returns
C18_GuestArgsFreedOnReturn ==
    (/\ pc = "returned"
     /\ hfParams # <<>>
     /\ ~Has(events, "paramCount")
     /\ ~Has(events, "paramRead")) =>
        \A i \in DOMAIN stackIn :
            LET a == U32Val(UnpackUI64(stackIn[i]).offset)
            IN SlotAt(a) # 0 => ~heap[SlotAt(a)].live

\* the callback of the "proxy" revision has returned what WriteMultiPack gave
Wrote == packed.op = "WriteMultiPack" /\ pc = "post" /\ ~packed.err

\* C19: Memory.WriteMultiPack(pd1..pdn) with n >= 1 returns a word with tag
\* Pack and size 8*n whose block holds pd1..pdn in order, so that the guest's
\* MultiPackedData.Read returns them; with n = 0 it returns 0
C19_HostWriteMultiPack ==
    (Wrote /\ packed.mpdErr # "malloc") =>
        IF packed.pds = <<>> THEN packed.mpd = Zero64
        ELSE LET u == UnpackUI64(packed.mpd)
                 n == Len(packed.pds)
             IN /\ packed.mpdErr = "none"
                /\ u.dataType = ValueTypePack
                /\ U32Val(u.size) = 8 * n
                /\ BytesToUint64Array(MemRead(heap, U32Val(u.offset), 8 * n))
                     = packed.pds
                /\ MultiPackedDataRead(heap, packed.mpd)
                     = [nil |-> FALSE, pds |-> packed.pds]

\* C20: every Memory.Write<T>Pack returns a word whose tag is the value type
\* of T and whose size is the width of T, so that the Read<T>Pack of the
\* other side accepts it and gets the value written
C20_HostWritePackTags ==
    Wrote =>
        \A i \in DOMAIN packed.vals :
            LET u == UnpackUI64(packed.pds[i])
                v == packed.vals[i]
            IN /\ u.dataType = v.t
               /\ u.size = ReadWidth(v.t, U32(Len(v.b)))
               /\ ReadPackAs(heap, packed.pds[i], v.t) = [ok |-> TRUE, b |-> v.b]

\* ------------------------------------------------------------------------
\* Guest function calls: what the claims say
\* ------------------------------------------------------------------------

\* the Go type of a value, as reflect.TypeOf prints it
GoTypeName(v) ==
    CASE v.t = ValueTypeBytes -> "[]uint8"
      [] v.t = ValueTypeByte -> "uint8"
      [] v.t = ValueTypeI32 -> "uint32"
      [] v.t = ValueTypeI64 -> "uint64"
      [] v.t = ValueTypeF32 -> "float32"
      [] v.t = ValueTypeF64 -> "float64"
      [] v.t = ValueTypeString -> "string"
      [] v.t = GoInt -> "int"
      [] v.t = GoBool -> "bool"
      [] OTHER -> "struct {}"

\* the tag and size the conversion must give a value of a listed type
ExpectedConversion(v) ==
    CASE GoTypeName(v) = "[]uint8" -> <<0, GoLen(v)>>
      [] GoTypeName(v) = "uint8" -> <<1, 1>>
      [] GoTypeName(v) = "uint32" -> <<2, 4>>
      [] GoTypeName(v) = "uint64" -> <<3, 8>>
      [] GoTypeName(v) = "float32" -> <<4, 4>>
      [] GoTypeName(v) = "float64" -> <<5, 8>>
      [] GoTypeName(v) = "string" -> <<6, GoLen(v)>>
      [] OTHER -> <<>>

\* C21: GetOffsetSizeAndDataTypeByConversion gives []byte (Bytes, length),
\* byte (Byte, 1), uint32 (I32, 4), uint64 (I64, 8), float32 (F32, 4),
\* float64 (F64, 8), string (String, length), and an error for a value of
\* any other type
C21_ConversionTable ==
    \A i \in DOMAIN gf.conv :
        LET v == gf.params[i]
            c == gf.conv[i]
            x == ExpectedConversion(v)
        IN IF x = <<>> THEN c.err
           ELSE ~c.err /\ c.dataType = x[1] /\ c.offsetSize = x[2]

\* C21 witness: a string and then an int were converted
C21_Witness ==
    /\ gf.params = <<StrHost, IntNine>>
    /\ Len(gf.conv) = 2
    /\ ~gf.conv[1].err /\ gf.conv[1].dataType = ValueTypeString
    /\ gf.conv[2].err

\* the last Invoke has returned
Invoked == gf.pc = "invoked"

\* every param of the Invoke has a type the conversion lists
AllSupported == \A i \in DOMAIN gf.params : ExpectedConversion(gf.params[i]) # <<>>

\* no Malloc, no write and no call of the Invoke came back with an error
EngineOk == gf.err \notin {"malloc", "write", "call"}

\* the offsets the Mallocs of the Invoke returned, in order
MallocOffsets == OffsetsOf(events, "malloc")

\* position of the first event of a kind and offset, 0 when there is none
FirstEvent(kind, off) ==
    IF \E i \in DOMAIN events : events[i] = Ev(kind, off)
    THEN CHOOSE i \in DOMAIN events :
            /\ events[i] = Ev(kind, off)
            /\ \A j \in 1..(i - 1) : events[j] # Ev(kind, off)
    ELSE 0

\* the exported function was called once, with one word per param in order:
\* the inferred tag, the offset of the i-th Malloc and the inferred size, and
\* the bytes of the param were at that offset when the call was made
CalledOnceWithPackedParams ==
    /\ gf.err = "none"
    /\ gf.called = 1
    /\ Count([i \in DOMAIN events |-> events[i].e], "call") = 1
    /\ Len(gf.stack) = Len(gf.params)
    /\ Len(MallocOffsets) = Len(gf.params)
    /\ \A i \in DOMAIN gf.params :
         LET v == gf.params[i]
             x == ExpectedConversion(v)
             off == MallocOffsets[i]
             u == UnpackUI64(gf.stack[i])
         IN /\ gf.stack[i] = PackFields(x[1], U32(off), U32(x[2]))
            /\ u = [dataType |-> x[1], offset |-> U32(off), size |-> U32(x[2])]
            /\ MemRead(gf.atCall, off, Len(v.b)) = v.b
            /\ FirstEvent("write", off) # 0
            /\ FirstEvent("write", off) < FirstEvent("call", 0)

\* C22 as stated: with n supported params and no engine failure the exported
\* function is called exactly once with the n packed words, each param
\* written at the offset of its Malloc before the call
C22_InvokePacksEveryParam ==
    (Invoked /\ AllSupported /\ EngineOk) => CalledOnceWithPackedParams

\* C22 with the size bound of the packed word: the same, for params that are
\* each shorter than 1 << 24 bytes
C22_InvokePacksParamsBelowSizeBound ==
    (/\ Invoked /\ AllSupported /\ EngineOk
     /\ \A i \in DOMAIN gf.params : GoLen(gf.params[i]) < HugeLen)
        => CalledOnceWithPackedParams

\* C22 witness: three params of different types were passed to the guest
C22_Witness ==
    /\ Invoked
    /\ gf.params = <<ByteOne, F64Val, StrHost>>
    /\ gf.err = "none"
    /\ Len(gf.stack) = 3
    /\ gf.called = 1

\* C23: when a param of an Invoke has a type the conversion does not list,
\* Invoke fails before any engine call: nothing was allocated, nothing was
\* written and the exported function was not called, for any param of the
\* invocation
C23_UnsupportedParamFailsBeforeEngine ==
    (Invoked /\ ~AllSupported) =>
        /\ gf.err = "convert"
        /\ gf.called = 0
        /\ ~Has(events, "malloc")
        /\ ~Has(events, "write")
        /\ ~Has(events, "call")
        /\ gf.n = 1 => heap = gf.before

\* C24: when a Malloc, a write or the call of the exported function fails
\* during Invoke, Invoke returns an error and no result; after a failed
\* Malloc or write the exported function is not called and no later param
\* is converted or allocated; and the tracker of the "tracked" revision is
\* empty when Invoke has returned
C24_EngineFailureAbortsInvoke ==
    (Invoked /\ ~EngineOk) =>
        /\ ~gf.hasHandle
        /\ gf.word = Zero64
        /\ (gf.err \in {"malloc", "write"}) =>
              /\ gf.called = 0
              /\ ~Has(events, "call")
              /\ Len(MallocOffsets) = Len(gf.conv)
              /\ Len(gf.stack) = Len(gf.conv) - 1
              /\ (gf.fault.op = gf.err) => (Len(gf.conv) = gf.fault.at)
        /\ (gf.err = "call") =>
              (gf.called = 1 /\ Len(gf.stack) = Len(gf.params))
        /\ (gf.rev = "tracked") =>
              /\ DOMAIN gf.am.Map = {}
              /\ TotalSize(gf.am) = 0

\* C24 witness: the write of the first of two params failed in the revision
\* that tracks them, after its block was registered, and cleanup released it
C24_Witness ==
    /\ Invoked
    /\ gf.rev = "tracked"
    /\ gf.params = <<BytesHi, U32Seven>>
    /\ gf.err = "write"
    /\ Has(events, "store")
    /\ Has(events, "free")

\* ReadResults was called on the handle of the last Invoke
WasRead == Invoked /\ gf.hasHandle /\ gf.reads >= 1

\* the fields of the handle's word and the inner words its block holds
HandleWord == UnpackUI64(gf.word)
InnerWords ==
    BytesToUint64Array(MemRead(heap, U32Val(HandleWord.offset),
                               U32Val(HandleWord.size)))

\* the engine can read what an inner word designates
Readable(w) ==
    LET u == UnpackUI64(w)
    IN u.dataType \in SupportedTags /\ InRange(u.offset, ReadWidth(u.dataType, u.size))

\* the native value an inner word designates, by its tag
Decoded(w) ==
    LET u == UnpackUI64(w)
    IN [t |-> u.dataType,
        b |-> MemRead(heap, U32Val(u.offset),
                      U32Val(ReadWidth(u.dataType, u.size)))]

\* a handle that is not tagged Pack is refused without a read of guest memory
NotPackRefused ==
    HandleWord.dataType # ValueTypePack =>
        /\ gf.first.err \in {"empty", "notPack"}
        /\ gf.first.results = <<>>
        /\ gf.first.ev = <<>>
        /\ ~Has(events, "readBytes") /\ ~Has(events, "read")

\* C25 as stated: ReadResults fails without reading guest memory when the
\* handle's tag is not Pack; otherwise it returns size/8 values in the order
\* of the inner words, the i-th decoded according to the tag of the i-th word
C25_ReadResultsDecodesEveryWord ==
    WasRead =>
        /\ NotPackRefused
        /\ HandleWord.dataType = ValueTypePack =>
              /\ gf.first.err = "none"
              /\ Len(gf.first.results) = U32Val(HandleWord.size) \div 8
              /\ \A i \in DOMAIN gf.first.results :
                    gf.first.results[i] = Decoded(InnerWords[i])

\* C25 for what the engine can read: the same when the array of the handle
\* lies inside the memory, for every inner word the engine can read
C25_ReadResultsDecodesReadableWords ==
    WasRead =>
        /\ NotPackRefused
        /\ (/\ HandleWord.dataType = ValueTypePack
            /\ InRange(HandleWord.offset, HandleWord.size)) =>
              /\ gf.first.err = "none"
              /\ Len(gf.first.results) = U32Val(HandleWord.size) \div 8
              /\ Len(InnerWords) = Len(gf.first.results)
              /\ \A i \in DOMAIN gf.first.results :
                    Readable(InnerWords[i]) =>
                        gf.first.results[i] = Decoded(InnerWords[i])

\* C25 witness: a guest function returned three scalars and the host read
\* three values of their types
C25_Witness ==
    /\ WasRead
    /\ gf.prog = GuestReturns(<<ByteOne, U32Seven, U64Year>>)
    /\ gf.first.err = "none"
    /\ gf.first.results = <<ByteOne, U32Seven, U64Year>>

\* C26: a result handle is single-use: a second ReadResults on it fails or
\* returns the empty result, and reads no guest memory
C26_ResultHandleSingleUse ==
    (WasRead /\ gf.reads >= 2) =>
        /\ gf.rr.err # "none" \/ gf.rr.results = <<>>
        /\ gf.rr.ev = <<>>
        /\ Count([i \in DOMAIN events |-> events[i].e], "readBytes") <= 1

\* the blocks behind a handle that was read: the array and what its
\* readable inner words designate
BackingBlocks ==
    {U32Val(HandleWord.offset)} \cup
    {U32Val(UnpackUI64(InnerWords[i]).offset) :
        i \in {j \in DOMAIN InnerWords : Readable(InnerWords[j])}}

\* C27: once the host has read the results of a guest function call, with
\* or without a Free of the handle after it, the array of the MultiPackedWord
\* and every inner value have been freed, so that repeated calls do not
\* accumulate result allocations
C27_ResultMemoryFreedAfterRead ==
    (WasRead /\ gf.first.err = "none") =>
        \A a \in BackingBlocks : SlotAt(a) # 0 => ~heap[SlotAt(a)].live

\* C28: when the engine cannot read what an inner word designates (the span
\* is out of range, the tag is unsupported), ReadResults returns an error; it
\* never returns success with nil in the place of that result
C28_InnerReadFailurePropagates ==
    (/\ WasRead
     /\ HandleWord.dataType = ValueTypePack
     /\ InRange(HandleWord.offset, HandleWord.size)
     /\ \E i \in DOMAIN InnerWords : ~Readable(InnerWords[i])) =>
        /\ gf.first.err # "none"
        /\ \A i \in DOMAIN gf.first.results : gf.first.results[i] # Nil

\* ------------------------------------------------------------------------
\* C29
\* ------------------------------------------------------------------------

\* C29: when a Malloc of the engine fails while the bridge encodes the
\* results, the bridge panics and the guest's call is aborted: it never
\* returns normally to the guest, whose return slot writeResultsToMemory
\* left as the guest passed it (revisions "deferred" and "cleanup")
C29_EncodeFailureAbortsCall ==
    (/\ rev \in {"deferred", "cleanup"}
     /\ Has(events, "encoded")
     /\ MallocFailed) =>
        /\ pc # "returned"
        /\ (pc = "idle" => guestView.status = "trap")

\* ------------------------------------------------------------------------
\* C30
\* ------------------------------------------------------------------------

\* the tracker the callback of registration r reaches through hf.allocationMap
TrackerOf(r) == reg.objs[reg.regs[r].am]

\* C30: every registration of a host function, in every module, has a
\* tracker of its own, also when the modules were created from the same
\* ModuleConfig, and a Store or Delete done by an invocation of one
\* registration leaves the entries and the total of every other
\* registration's tracker as they were (instantiateHostFunctions of
\* runtime_wazero.go)
C30_TrackerPerRegistration ==
    reg.rev = "runtime_wazero" =>
        /\ \A p, q \in DOMAIN reg.regs :
             p # q => reg.regs[p].am # reg.regs[q].am
        /\ \A q \in DOMAIN reg.regs :
             (/\ reg.last.r # 0
              /\ q # reg.last.r
              /\ reg.regs[q].am \in DOMAIN reg.last.before) =>
                 TrackerOf(q) = reg.last.before[reg.regs[q].am]

\* two modules exist; A of the first module has just stored an offset in its
\* tracker while A of the second module and B of the first hold entries
C30_Witness ==
    /\ reg.rev = "runtime_wazero"
    /\ reg.mods = 2
    /\ reg.last.op = "Store"
    /\ reg.last.r = 1
    /\ reg.regs[1].name = "A" /\ reg.regs[1].mod = 1
    /\ reg.regs[4].name = "A" /\ reg.regs[4].mod = 2
    /\ TrackerOf(1) # reg.last.before[reg.regs[1].am]
    /\ TotalSize(TrackerOf(4)) > 0
    /\ TotalSize(TrackerOf(2)) > 0
    /\ TrackerOf(1) # TrackerOf(4)

\* ------------------------------------------------------------------------
\* C31
\* ------------------------------------------------------------------------

\* C31: every exported name is bound to its own registration: the callback
\* that runs for the name is the one of the HostFunction registered under
\* that name, with that function's tracker, which no other export of the
\* module uses; in particular the exports are not all bound to the last
\* function of the list
C31_ExportRunsOwnFunction ==
    /\ \A r \in DOMAIN reg.regs : reg.regs[r].runs = reg.regs[r].name
    /\ \A p, q \in DOMAIN reg.regs :
         p # q => reg.regs[p].am # reg.regs[q].am
    /\ reg.last.r # 0 => reg.last.ran = reg.regs[reg.last.r].name

\* ------------------------------------------------------------------------
\* C32
\* ------------------------------------------------------------------------

\* the guest returned values it wrote with Write<T>Pack and the host holds
\* the handle of their array
GuestWroteValues ==
    /\ Invoked
    /\ gf.hasHandle
    /\ gf.prog.kind = "return"
    /\ gf.prog.vals # <<>>

\* C32: the block the guest allocates for a scalar value is at least as
\* large as the value stored into it and as the size its packed word records
C32_ScalarAllocationCoversValue ==
    GuestWroteValues =>
        \A i \in DOMAIN gf.prog.vals :
            LET v == gf.prog.vals[i]
            IN ("raw" \notin DOMAIN v) =>
                   /\ LeakedPtrMalloc(v) >= LeakedPtrStore(v)
                   /\ LeakedPtrMalloc(v) >= U32Val(UnpackUI64(InnerWords[i]).size)

\* ------------------------------------------------------------------------
\* C33
\* ------------------------------------------------------------------------

\* stacks of several lengths, with words no read could follow
SampleStacks ==
    {<<>>, <<Zero64>>, <<BadTagWord>>, <<OutOfRangeWord, BadTagWord>>}

\* decoding for a function that declares no parameters gives no error and no
\* params, makes no Store and leaves the tracker as it was
DecodesNothing(stk) ==
    /\ convertParamsToStruct(<<>>, stk, heap, allocationMap) =
         [declared |-> <<>>, params |-> <<>>, am |-> allocationMap,
          ev |-> <<>>, err |-> "none"]
    /\ preHostFunctionCallback(<<>>, stk) = [pds |-> <<>>, err |-> "none"]

\* C33: when a host function declares zero parameters, decoding succeeds
\* for a stack of any length: no count mismatch, no read of guest memory,
\* nothing registered with the tracker, and the callback gets no parameters
C33_ZeroParamsDecodeNothing ==
    /\ \A stk \in SampleStacks : DecodesNothing(stk)
    /\ (hfParams = <<>> /\ pc \in {"callback", "proxyCallback"}) =>
          /\ events = <<Ev("decode", 0)>>
          /\ params = <<>>

\* a function without parameters was called with the engine's one result
\* slot on the stack, and decoding has handed over to the callback
C33_Witness ==
    /\ hfParams = <<>>
    /\ Len(stack) = 1
    /\ pc = "callback"
    /\ events = <<Ev("decode", 0)>>

\* ------------------------------------------------------------------------
\* C34
\* ------------------------------------------------------------------------

\* the keys the deferred cleanup handed to Free, in the order of the Range
FreedKeys == OffsetsOf(events, "free")

\* the first key of the Range whose Free failed (0 when none did)
FirstFailed ==
    IF \E i \in DOMAIN FreedKeys : FreedKeys[i] \in gf.freeFailed
    THEN FreedKeys[CHOOSE i \in DOMAIN FreedKeys :
                     /\ FreedKeys[i] \in gf.freeFailed
                     /\ \A j \in 1..(i - 1) : FreedKeys[j] \notin gf.freeFailed]
    ELSE 0

\* C34: the cleanup of a guest function after Invoke hands every tracked
\* offset to Free, also after the Free of an earlier one failed, leaves the
\* tracker with no entry and total size 0, and returns the first error
C34_GuestCleanupFreesEveryOffset ==
    (Invoked /\ gf.rev = "tracked") =>
        /\ \A i \in DOMAIN events :
             events[i].e = "store" =>
                Cardinality({j \in DOMAIN FreedKeys :
                               FreedKeys[j] = events[i].off}) = 1
        /\ DOMAIN gf.am.Map = {}
        /\ TotalSize(gf.am) = 0
        /\ gf.freeErr = FirstFailed

\* three arguments were tracked, the Free of the second key of the Range
\* and of the third failed, and the third was still handed to Free
C34_Witness ==
    /\ Invoked
    /\ gf.rev = "tracked"
    /\ Len(FreedKeys) = 3
    /\ gf.freeFailed = {FreedKeys[2], FreedKeys[3]}
    /\ gf.freeErr = FreedKeys[2]

\* ------------------------------------------------------------------------
\* C35
\* ------------------------------------------------------------------------

\* C35: log takes the message from its first parameter and the severity
\* from its second, and writes the message with Debug, Info, Warn or Error
\* for the severity 1, 2, 3 or 4 the guest sent; any other severity writes
\* nothing
C35_LogWritesAtSentSeverity ==
    lg.pc = "logged" =>
        /\ ~lg.panicked
        /\ lg.out = logSwitch(lg.lvl, lg.msg.b)

\* ------------------------------------------------------------------------
\* C36
\* ------------------------------------------------------------------------

\* C36: whatever signature the host function declares, the one with no
\* parameters and no results included, the bridge never indexes the stack
\* of the call at a slot the engine did not provide
C36_NoSlotBeyondTheStack ==
    ~Has(events, "indexOutOfRange")

\* ------------------------------------------------------------------------
\* C37
\* ------------------------------------------------------------------------

\* C37: for every 64-bit word, UnpackUI64 returns its bits 63..56 as the
\* tag, its bits 55..24 as the offset and its bits 23..0 as the size, and
\* PackUI64 of these three succeeds and returns the word again
C37_UnpackThenPackIsTheWord ==
    codec.op = "UnpackPack" =>
        /\ codec.un.dataType = codec.word[8]
        /\ codec.un.offset = <<codec.word[4], codec.word[5], codec.word[6],
                               codec.word[7]>>
        /\ codec.un.size = <<codec.word[1], codec.word[2], codec.word[3], 0>>
        /\ ~codec.err
        /\ codec.re = codec.word

\* a word with a bit set in each of the three fields, the top bit of the
\* size field included, was unpacked and packed again
C37_Witness ==
    /\ codec.op = "UnpackPack"
    /\ codec.word = <<255, 255, 255, 120, 86, 52, 18, 128>>
    /\ codec.re = codec.word

\* ------------------------------------------------------------------------
\* C38
\* ------------------------------------------------------------------------

\* C38: after any sequence of Store and Delete made one after the other, a
\* Store on a key that is already present included, TotalSize is the sum of
\* the sizes the tracker holds
C38_TotalSizeIsSumOfHeldSizes ==
    (trk.op \in {"Store", "Delete"} /\ ~trk.panicked
        /\ \A g \in Goroutines : gor[g].pc = "idle") =>
        TotalSize(allocationMap) =
            SumOver(DOMAIN allocationMap.Map, allocationMap.Map)

\* ------------------------------------------------------------------------
\* C39
\* ------------------------------------------------------------------------

\* the offsets of the blocks the engine's free released in this call, in
\* the order of the calls (a failed free is recorded with offset 0, which
\* is no block of the allocator)
FreedInCall == SelectSeq(OffsetsOf(events, "free"), LAMBDA a : a # 0)

\* two words of the stack of the call carry the same offset of a block
SameOffsetTwice ==
    /\ Len(stackIn) = 2
    /\ UnpackUI64(stackIn[1]).offset = UnpackUI64(stackIn[2]).offset
    /\ SlotAt(U32Val(UnpackUI64(stackIn[1]).offset)) # 0

\* C39: when two parameter words of one call carry the same offset, the
\* cleanup of the host function frees that offset once, and when a free
\* fails no offset the cleanup had freed before is freed again
C39_NoOffsetFreedTwice ==
    \A i, j \in DOMAIN FreedInCall :
        i # j => FreedInCall[i] # FreedInCall[j]

\* in a call whose two words share one offset a free failed and the shared
\* offset was freed after it
C39_Witness ==
    /\ SameOffsetTwice
    /\ \E i, j \in DOMAIN events :
          /\ i < j
          /\ events[i] = Ev("free", 0)
          /\ events[j] = Ev("free", U32Val(UnpackUI64(stackIn[1]).offset))
    /\ Count(FreedInCall, U32Val(UnpackUI64(stackIn[1]).offset)) = 1

====
